---------------------------- MODULE Spec2Model ----------------------------
(***************************************************************************)
(* A model of the review-analysis pipeline of src/nlp_engine.py:           *)
(* TextPreprocessor, MultiModelSentimentAnalyzer, TopicModeler.fit and     *)
(* NLPPipeline.                                                            *)
(*                                                                         *)
(* Numbers.  The code computes with floats; the model computes with exact  *)
(* rationals on a fixed grid.  A score or a confidence v in [0,1] is the   *)
(* integer v * Unit; lexicon weights and modifiers are in tenths, their    *)
(* products (raw scores) in hundredths; ensemble weights are in tenths;    *)
(* VADER's compound and the classifier's probability are in hundredths.    *)
(* Unit is chosen so that every division the code performs is exact.       *)
(*                                                                         *)
(* Texts.  A str is a sequence of lower-case words, each one token of      *)
(* word_tokenize, joined by single blanks, after `lead` blanks.  None and  *)
(* a non-text value (an int) are the other values a caller can pass.       *)
(***************************************************************************)
EXTENDS Integers, Sequences, FiniteSets, TLC

VARIABLES
    use_transformer,  \* MultiModelSentimentAnalyzer.use_transformer
    _transformer,     \* MultiModelSentimentAnalyzer._transformer
    call,             \* the analyzer call in progress or just returned, or Idle
    n_topics,         \* TopicModeler.n_topics
    topic_modeler,    \* TopicModeler's vectorizer, model, feature_names, doc_topics
    pipe              \* the pipeline call in progress or just returned, or Idle

sentVars == <<use_transformer, _transformer, call>>
pipeVars == <<n_topics, topic_modeler, pipe>>

(***************************** bounds *************************************)
\* Longest text, in words, that Init draws over the small vocabulary.
MaxWords == 4
\* Longest text, in words, of the analyzer's callers.
MaxSentWords == 3
\* Most leading blanks of a text.
MaxLead == 1

(**************************** numbers *************************************)
Max(a, b) == IF a >= b THEN a ELSE b
Min(a, b) == IF a <= b THEN a ELSE b
Abs(a) == IF a < 0 THEN -a ELSE a

RECURSIVE Gcd(_, _)
Gcd(a, b) == IF b = 0 THEN a ELSE Gcd(b, a % b)

RECURSIVE LcmUpTo(_)
LcmUpTo(n) == IF n <= 1 THEN 1 ELSE (LcmUpTo(n - 1) * n) \div Gcd(LcmUpTo(n - 1), n)

\* The integer that stands for 1.0: raw/(word_count*400) and the ensemble's
\* division by the weights' sum (10 tenths) are exact on this grid.
Unit == 4000 * LcmUpTo(MaxWords)

(************************** SentimentLabel ********************************)
POSITIVE == "positive"
NEGATIVE == "negative"
NEUTRAL == "neutral"
SentimentLabel == {POSITIVE, NEGATIVE, NEUTRAL}

NoResult == [method |-> "no result"]

\* details = {} (the dataclass default)
EmptyDetails == [empty |-> TRUE]

(*************************** TextPreprocessor *****************************)
\* self.domain_words
domain_words ==
    {"plot", "acting", "actor", "actress", "director", "scene", "character",
     "story", "ending", "script", "dialogue", "cinematography", "soundtrack",
     "score", "performance", "cast", "movie", "film", "cinema", "screen",
     "visual", "effect", "music", "pacing", "twist"}

\* self.negation_words
negation_words ==
    {"not", "n't", "never", "no", "none", "neither", "nobody", "nothing",
     "nowhere", "hardly", "barely"}

\* self.stop_words: the words of NLTK's English stop-word list that the
\* model's vocabularies use.
stop_words ==
    {"a", "the", "is", "was", "of", "and", "this", "it", "not", "no", "very", "so"}

\* self.lemmatizer.lemmatize(token): WordNet's noun lemma, on the model's
\* vocabularies.
lemmatize_word(token) ==
    CASE token = "films" -> "film"
      [] token = "movies" -> "movie"
      [] token = "actors" -> "actor"
      [] token = "scenes" -> "scene"
      [] OTHER -> token

None == [kind |-> "None"]
NonText(v) == [kind |-> "int", value |-> v]
Str(lead, words) == [kind |-> "str", lead |-> lead, words |-> words]

IsStr(text) == text.kind = "str"

RECURSIVE SumLen(_)
SumLen(words) == IF words = <<>> THEN 0 ELSE Len(Head(words)) + SumLen(Tail(words))

\* The punctuation marks of the model's texts.  A mark is an element of
\* text.words of its own, written right after the word before it; a text
\* does not begin with one.
punctuation == {",", ".", "!", "?"}

\* text.split(): the words between the blanks, each with its marks.
split(text) == SelectSeq(text.words, LAMBDA w : w \notin punctuation)

\* len(text.strip()): the words, their marks and the single blanks between
\* the words.
StripLen(text) ==
    IF text.words = <<>> THEN 0 ELSE SumLen(text.words) + Len(split(text)) - 1

\* len(text)
TextLen(text) == text.lead + StripLen(text)

\* The number of non-whitespace characters of a str.
NonWhitespace(text) == SumLen(text.words)

\* Python's truth value of the argument: None, 0 and "" are false.
Truthy(text) ==
    CASE text.kind = "None" -> FALSE
      [] text.kind = "int" -> text.value # 0
      [] OTHER -> TextLen(text) > 0

\* One pass of tokenize's loop over word_tokenize(text.lower()).
RECURSIVE tokenize_loop(_, _, _)
tokenize_loop(tokens, remove_stopwords, lemmatize) ==
    IF tokens = <<>> THEN <<>>
    ELSE LET token == Head(tokens)
             rest == tokenize_loop(Tail(tokens), remove_stopwords, lemmatize)
         IN  IF token \in negation_words \/ token \in domain_words THEN <<token>> \o rest
             ELSE IF remove_stopwords /\ token \in stop_words THEN rest
             ELSE IF Len(token) < 2 THEN rest
             ELSE IF lemmatize THEN <<lemmatize_word(token)>> \o rest
             ELSE <<token>> \o rest

\* str.lower() of one word, on the model's vocabularies.
lower(word) ==
    CASE word = "This" -> "this"
      [] word = "Actor" -> "actor"
      [] word = "A" -> "a"
      [] word = "Brilliant" -> "brilliant"
      [] word = "Acting" -> "acting"
      [] OTHER -> word

\* The tokens of text.lower().split(): a mark stays on the word before it.
RECURSIVE join_marks(_)
join_marks(words) ==
    IF Len(words) < 2 THEN words
    ELSE IF words[2] \in punctuation
         THEN join_marks(<<words[1] \o words[2]>> \o SubSeq(words, 3, Len(words)))
         ELSE <<words[1]>> \o join_marks(Tail(words))

whitespace_tokens(text) ==
    join_marks([k \in 1 .. Len(text.words) |-> lower(text.words[k])])

\* word_tokenize(text.lower()): the words and the marks, one token each.
word_tokenize(text) == [k \in 1 .. Len(text.words) |-> lower(text.words[k])]

tokenize(text, remove_stopwords, lemmatize) ==
    tokenize_loop(word_tokenize(text), remove_stopwords, lemmatize)

(********************* MultiModelSentimentAnalyzer ************************)
\* self.positive_words, in tenths
positive_words ==
    [masterpiece |-> 20, brilliant |-> 18, outstanding |-> 17, amazing |-> 16,
     excellent |-> 16, fantastic |-> 15, wonderful |-> 15, incredible |-> 15,
     perfect |-> 18, beautiful |-> 13, stunning |-> 14, captivating |-> 14,
     compelling |-> 13, engaging |-> 12, gripping |-> 13, riveting |-> 14,
     breathtaking |-> 15, heartwarming |-> 13, hilarious |-> 14, touching |-> 13,
     powerful |-> 13, unforgettable |-> 15, genius |-> 16, flawless |-> 17,
     superb |-> 15, remarkable |-> 14, impressive |-> 13, love |-> 12,
     loved |-> 12, best |-> 14, great |-> 11, good |-> 8]

\* self.negative_words, in tenths
negative_words ==
    [terrible |-> -18, awful |-> -17, horrible |-> -17, worst |-> -20,
     bad |-> -12, poor |-> -13, boring |-> -14, disappointing |-> -15,
     waste |-> -14, stupid |-> -13, ridiculous |-> -12, annoying |-> -12,
     dull |-> -13, weak |-> -11, mediocre |-> -10, forgettable |-> -12,
     predictable |-> -9, cliche |-> -10, overrated |-> -13, confusing |-> -11,
     slow |-> -8, painful |-> -14, unbearable |-> -16, disaster |-> -17,
     unwatchable |-> -18, pretentious |-> -13, tedious |-> -14, lifeless |-> -15]

\* self.intensifiers, in tenths
intensifiers ==
    [very |-> 15, really |-> 14, extremely |-> 18, absolutely |-> 17,
     completely |-> 16, totally |-> 15, utterly |-> 17, incredibly |-> 16,
     so |-> 13, highly |-> 14, truly |-> 14, particularly |-> 13]

\* self.diminishers, in tenths
diminishers ==
    [somewhat |-> 7, slightly |-> 6, barely |-> 5, hardly |-> 4]
    @@ ("kind of" :> 6) @@ ("sort of" :> 6) @@ ("a bit" :> 7) @@ ("a little" :> 7)

\* modifier = 1.0; if i > 0: intensifiers.get(prev, diminishers.get(prev, 1.0))
modifier_table(prev) ==
    IF prev \in DOMAIN intensifiers THEN intensifiers[prev]
    ELSE IF prev \in DOMAIN diminishers THEN diminishers[prev]
    ELSE 10

\* A scorer that also looks up the two tokens before the word, joined by a
\* blank, in the diminisher table.
modifier_two_tokens(tokens, i) ==
    IF i > 2 /\ (tokens[i - 2] \o " " \o tokens[i - 1]) \in DOMAIN diminishers
    THEN diminishers[tokens[i - 2] \o " " \o tokens[i - 1]]
    ELSE IF i > 1 THEN modifier_table(tokens[i - 1]) ELSE 10

\* A scorer that divides by the modifier where the code multiplies.
modifier_reciprocal(tokens, i) ==
    IF i > 1 THEN 100 \div modifier_table(tokens[i - 1]) ELSE 10

modifier(tokens, i) ==
    IF i > 1 THEN modifier_table(tokens[i - 1]) ELSE 10

\* A negation window of 2 tokens where the code looks back 3.
negated_window2(tokens, i) ==
    \E neg \in negation_words :
        \E j \in Max(1, i - 2) .. (i - 1) : tokens[j] = neg

\* any(neg in tokens[max(0, i-3):i] for neg in negation_words)
negated(tokens, i) ==
    \E neg \in negation_words :
        \E j \in Max(1, i - 3) .. (i - 1) : tokens[j] = neg

\* What token i adds to total_score (hundredths) and to word_count.
token_score(tokens, i) ==
    LET token == tokens[i]
    IN  IF token \in DOMAIN positive_words
        THEN LET score == positive_words[token] * modifier(tokens, i)
             IN  [total |-> IF negated(tokens, i) THEN -score ELSE score, count |-> 1]
        ELSE IF token \in DOMAIN negative_words
        THEN LET score == negative_words[token] * modifier(tokens, i)
             IN  [total |-> IF negated(tokens, i) THEN -score ELSE score, count |-> 1]
        ELSE [total |-> 0, count |-> 0]

\* total_score += ...; word_count += 1
lexicon_add(acc, one) ==
    [total |-> acc.total + one.total, count |-> acc.count + one.count]

\* The loop of _analyze_lexicon over tokens 1..n.
RECURSIVE lexicon_loop(_, _)
lexicon_loop(tokens, n) ==
    IF n = 0 THEN [total |-> 0, count |-> 0]
    ELSE lexicon_add(lexicon_loop(tokens, n - 1), token_score(tokens, n))

\* normalized = (avg_score + 2) / 4, before the clamp, times Unit
normalize(total_score, word_count) ==
    ((total_score + 200 * word_count) * (Unit \div 400)) \div word_count

\* A scorer without the clamp.
clamp_missing(normalized) == normalized

\* normalized = max(0, min(1, normalized))
clamp(normalized) == Max(0, Min(Unit, normalized))

\* Thresholds that count 0.55 as positive and 0.45 as negative.
lexicon_label_inclusive(normalized) ==
    IF normalized * 100 >= 55 * Unit THEN POSITIVE
    ELSE IF normalized * 100 <= 45 * Unit THEN NEGATIVE
    ELSE NEUTRAL

\* The label of a normalized lexicon score: > 0.55, < 0.45, else neutral.
lexicon_label(normalized) ==
    IF normalized * 100 > 55 * Unit THEN POSITIVE
    ELSE IF normalized * 100 < 45 * Unit THEN NEGATIVE
    ELSE NEUTRAL

\* The SentimentResult of a text whose matched words gave `normalized`.
lexicon_scored(acc, normalized) ==
    [label |-> lexicon_label(normalized),
     score |-> normalized,
     confidence |-> Abs(normalized - Unit \div 2) * 2,
     method |-> "lexicon",
     details |-> [word_count |-> acc.count, raw_score |-> acc.total]]

\* The end of _analyze_lexicon: neutral when no lexicon word was found.
lexicon_result(acc) ==
    IF acc.count = 0
    THEN [label |-> NEUTRAL, score |-> Unit \div 2, confidence |-> 0,
          method |-> "lexicon", details |-> EmptyDetails]
    ELSE lexicon_scored(acc, clamp(normalize(acc.total, acc.count)))

\* total_score and word_count after the loop over all tokens.
lexicon_scan(tokens) == lexicon_loop(tokens, Len(tokens))

\* _analyze_lexicon(text): the text is tokenized with its stop words kept and
\* without lemmatizing.
_analyze_lexicon(text) == lexicon_result(lexicon_scan(tokenize(text, FALSE, FALSE)))

\* The value of self._transformer: None before the first use, False after a
\* failed load, the loaded pipeline after a successful one.
HandleNone == "None"
HandleFalse == "False"
HandleLoaded == "Loaded"

\* A lazy load that does not remember its failure.
transformer_forgetful(handle, use, env) ==
    IF handle = HandleNone /\ use
    THEN (IF env.load = "ok" THEN HandleLoaded ELSE HandleNone)
    ELSE handle

\* The transformer property: loads on first use when use_transformer is set.
\* env.load is what the import and the pipeline construction do: "ok" or "fail".
transformer(handle, use, env) ==
    IF handle = HandleNone /\ use
    THEN (IF env.load = "ok" THEN HandleLoaded ELSE HandleFalse)
    ELSE handle

\* The classifier's output as a SentimentResult.
transformer_result(infer) ==
    LET is_positive == infer.label = "POSITIVE"
        p == infer.score * (Unit \div 100)
    IN  [label |-> IF is_positive THEN POSITIVE ELSE NEGATIVE,
         score |-> IF is_positive THEN p ELSE Unit - p,
         confidence |-> p,
         method |-> "transformer",
         details |-> EmptyDetails]

\* A classifier step without the try/except around the inference.
_analyze_transformer_unguarded(text, handle, use, env) ==
    LET h == transformer(handle, use, env)
    IN  IF h # HandleLoaded
        THEN [result |-> NoResult, handle |-> h, invoked |-> {}, raised |-> FALSE]
        ELSE [result |-> IF env.infer.label = "throw" THEN NoResult
                         ELSE transformer_result(env.infer),
              handle |-> h, invoked |-> {"transformer"},
              raised |-> env.infer.label = "throw"]

\* env.infer is what the loaded classifier does on text[:512]: it throws, or
\* gives the label POSITIVE or NEGATIVE with its probability (hundredths).
_analyze_transformer(text, handle, use, env) ==
    LET h == transformer(handle, use, env)
    IN  IF h # HandleLoaded
        THEN [result |-> NoResult, handle |-> h, invoked |-> {}, raised |-> FALSE]
        ELSE IF env.infer.label = "throw"
        THEN [result |-> NoResult, handle |-> h, invoked |-> {"transformer"},
              raised |-> FALSE]
        ELSE [result |-> transformer_result(env.infer),
              handle |-> h, invoked |-> {"transformer"}, raised |-> FALSE]

\* env.compound is VADER's compound for the text, in hundredths, in [-100, 100].
_analyze_vader(text, env) ==
    LET compound == env.compound
    IN  [label |-> IF compound >= 5 THEN POSITIVE
                   ELSE IF compound <= -5 THEN NEGATIVE
                   ELSE NEUTRAL,
         score |-> (compound + 100) * (Unit \div 200),
         confidence |-> Abs(compound) * (Unit \div 100),
         method |-> "vader",
         details |-> [compound |-> compound]]

\* The SentimentResult of the short-text guard.
default_result ==
    [label |-> NEUTRAL, score |-> Unit \div 2, confidence |-> 0,
     method |-> "default", details |-> EmptyDetails]

\* The outcome of a call: the exception it raised, or the result it
\* returned, with self._transformer after it, the detectors it invoked and
\* (for the ensemble) the results it fused.
Raised(handle) ==
    [result |-> NoResult, handle |-> handle, invoked |-> {}, raised |-> TRUE,
     results |-> <<>>]

Returned(result, handle, invoked) ==
    [result |-> result, handle |-> handle, invoked |-> invoked, raised |-> FALSE,
     results |-> <<>>]

RECURSIVE SumSeq(_)
SumSeq(s) == IF s = <<>> THEN 0 ELSE Head(s) + SumSeq(Tail(s))

\* Weights that are not raised to 0.5/0.5 when the classifier gave nothing.
ensemble_weights_static(has_trans) == IF has_trans THEN <<5, 3, 2>> ELSE <<3, 2>>

\* The weights a call uses: with the classifier's result 0.5/0.3/0.2, without
\* it 0.5/0.5 (tenths).
ensemble_weights(has_trans) == IF has_trans THEN <<5, 3, 2>> ELSE <<5, 5>>

\* label_scores[label]: the sum of w * r.confidence over the results of that label.
label_score(results, weights, label) ==
    SumSeq([i \in 1 .. Len(results) |->
                IF results[i].label = label THEN weights[i] * results[i].confidence ELSE 0])

\* A vote in which, of the labels with the largest accumulator, the one that
\* was added last wins.
final_label_last(results, weights) ==
    LET best == CHOOSE i \in 1 .. Len(results) :
                    /\ \A j \in 1 .. Len(results) :
                           label_score(results, weights, results[j].label)
                               <= label_score(results, weights, results[i].label)
                    /\ \A j \in (i + 1) .. Len(results) :
                           label_score(results, weights, results[j].label)
                               < label_score(results, weights, results[i].label)
    IN  results[best].label

\* max(label_scores, key=label_scores.get): the keys of a dict come in the order
\* of their first insertion, and max keeps the first of the largest.
final_label(results, weights) ==
    LET best == CHOOSE i \in 1 .. Len(results) :
                    /\ \A j \in 1 .. Len(results) :
                           label_score(results, weights, results[j].label)
                               <= label_score(results, weights, results[i].label)
                    /\ \A j \in 1 .. (i - 1) :
                           label_score(results, weights, results[j].label)
                               < label_score(results, weights, results[i].label)
    IN  results[best].label

\* An average that divides the weighted sum by the number of results.
avg_score_by_count(results, weights) ==
    SumSeq([i \in 1 .. Len(results) |-> results[i].score * weights[i]])
        \div (10 * Len(results))

\* sum(r.score * w for r, w in zip(results, weights)) / sum(weights)
avg_score(results, weights) ==
    SumSeq([i \in 1 .. Len(results) |-> results[i].score * weights[i]]) \div SumSeq(weights)

\* The fused SentimentResult, and what the call leaves behind.
ensemble_record(t, vader, lexicon, results, w, label) ==
    [result |-> [label |-> label,
                 score |-> avg_score(results, w),
                 confidence |-> label_score(results, w, label) \div SumSeq(w),
                 method |-> "ensemble",
                 details |-> [transformer |-> IF t.result # NoResult
                                              THEN t.result.label ELSE "None",
                              vader |-> vader.label,
                              lexicon |-> lexicon.label,
                              weights |-> w]],
     handle |-> t.handle,
     invoked |-> t.invoked \cup {"vader", "lexicon"},
     raised |-> t.raised,
     results |-> results]

\* The weighted vote: final_label = max(label_scores, key=label_scores.get).
ensemble_fuse(t, vader, lexicon, results, w) ==
    ensemble_record(t, vader, lexicon, results, w, final_label(results, w))

\* results and weights: the classifier's result first when there is one.
ensemble_of(t, vader, lexicon) ==
    IF t.raised THEN Raised(t.handle)
    ELSE ensemble_fuse(t, vader, lexicon,
                       IF t.result # NoResult THEN <<t.result, vader, lexicon>>
                       ELSE <<vader, lexicon>>,
                       ensemble_weights(t.result # NoResult))

\* _analyze_ensemble(text): the classifier, VADER and the lexicon scorer.
_analyze_ensemble(text, handle, use, env) ==
    ensemble_of(_analyze_transformer(text, handle, use, env),
                _analyze_vader(text, env), _analyze_lexicon(text))

\* A guard that measures the text without strip().
short_by_len(text) == ~Truthy(text) \/ (IsStr(text) /\ TextLen(text) < 10)

\* The guard of analyze: not text or len(text.strip()) < 10.  A non-text
\* value that is true has no strip(): the call raises AttributeError.
is_short(text) == ~Truthy(text) \/ (IsStr(text) /\ StripLen(text) < 10)

\* method == 'transformer': the classifier's result, or VADER's without one.
transformer_or_vader(t, text, env) ==
    IF t.raised THEN Raised(t.handle)
    ELSE IF t.result # NoResult THEN Returned(t.result, t.handle, t.invoked)
    ELSE Returned(_analyze_vader(text, env), t.handle, t.invoked \cup {"vader"})

\* analyze(text, method)
analyze(text, method, handle, use, env) ==
    IF is_short(text) THEN Returned(default_result, handle, {})
    ELSE IF ~IsStr(text) THEN Raised(handle)
    ELSE IF method = "transformer"
    THEN transformer_or_vader(_analyze_transformer(text, handle, use, env), text, env)
    ELSE IF method = "vader" THEN Returned(_analyze_vader(text, env), handle, {"vader"})
    ELSE IF method = "lexicon" THEN Returned(_analyze_lexicon(text), handle, {"lexicon"})
    ELSE _analyze_ensemble(text, handle, use, env)

(*************************** AspectBasedAnalyzer ***************************)
\* ASPECTS, in the order of the dict: each aspect's key and keywords.
ASPECTS ==
    << [key |-> "acting",
        keywords |-> {"acting", "actor", "actress", "performance", "perform",
                      "cast", "role", "portray", "played", "star"}],
       [key |-> "plot",
        keywords |-> {"plot", "story", "storyline", "narrative", "twist",
                      "premise", "tale", "script", "writing", "written"}],
       [key |-> "direction",
        keywords |-> {"director", "direction", "directing", "directed",
                      "filmmaker", "vision", "helm", "nolan", "spielberg"}],
       [key |-> "cinematography",
        keywords |-> {"cinematography", "camera", "visual", "shot", "shots",
                      "photography", "frame", "framing", "lens", "lighting"}],
       [key |-> "soundtrack",
        keywords |-> {"music", "soundtrack", "score", "sound", "audio",
                      "song", "composer", "hans zimmer", "theme", "musical"}],
       [key |-> "dialogue",
        keywords |-> {"dialogue", "dialog", "line", "lines", "conversation",
                      "speech", "talking", "quote", "memorable"}],
       [key |-> "pacing",
        keywords |-> {"pace", "pacing", "slow", "fast", "runtime", "length",
                      "drag", "dragged", "tempo", "speed", "boring", "long"}],
       [key |-> "ending",
        keywords |-> {"ending", "end", "conclusion", "finale", "climax",
                      "resolution", "final", "last", "finish"}],
       [key |-> "effects",
        keywords |-> {"effects", "cgi", "vfx", "special effects", "animation",
                      "action", "stunts", "practical", "visual effects"}],
       [key |-> "characters",
        keywords |-> {"character", "characters", "protagonist", "antagonist",
                      "villain", "hero", "development", "arc", "depth"}] >>

\* The taxonomy keywords that are substrings of one lower-cased word, for the
\* words of the model's texts ("ending" holds "end", and so does "friend").
keywords_inside(word) ==
    CASE word = "acting" -> {"acting"}
      [] word = "plot" -> {"plot"}
      [] word = "cinematography" -> {"cinematography"}
      [] word = "boring" -> {"boring"}
      [] word = "ending" -> {"ending", "end"}
      [] word = "friend" -> {"end"}
      [] OTHER -> {}

\* The keywords of two words, which match two words in a row.
keyword_pairs ==
    { [kw |-> "hans zimmer", first |-> "hans", second |-> "zimmer"],
      [kw |-> "special effects", first |-> "special", second |-> "effects"],
      [kw |-> "visual effects", first |-> "visual", second |-> "effects"] }

\* kw in sentence_lower: the keyword is a substring of the lower-cased
\* sentence, inside one word or across the blank between two.
keyword_in(kw, words) ==
    \/ \E k \in 1 .. Len(words) : kw \in keywords_inside(lower(words[k]))
    \/ \E k \in 1 .. (Len(words) - 1) :
          \E p \in keyword_pairs :
             /\ p.kw = kw
             /\ lower(words[k]) = p.first
             /\ lower(words[k + 1]) = p.second

\* The marks that end a sentence.
terminators == {".", "!", "?"}

\* sent_tokenize over the words left, `open` being the words of the sentence
\* that has not ended yet: a sentence ends with its terminator, the last one
\* also with the text.
RECURSIVE sent_tokenize(_, _)
sent_tokenize(words, open) ==
    IF words = <<>> THEN (IF open = <<>> THEN <<>> ELSE <<Str(0, open)>>)
    ELSE IF Head(words) \in terminators
         THEN <<Str(0, Append(open, Head(words)))>> \o sent_tokenize(Tail(words), <<>>)
         ELSE sent_tokenize(Tail(words), Append(open, Head(words)))

\* extract_sentences(text)
extract_sentences(text) == sent_tokenize(text.words, <<>>)

\* A match of whole words only: some word of the sentence is a keyword.
matched_word(aspect, sentence) ==
    \E k \in 1 .. Len(sentence.words) : lower(sentence.words[k]) \in aspect.keywords

\* matched = [kw for kw in aspect_info['keywords'] if kw in sentence_lower]
matched(aspect, sentence) ==
    \E kw \in aspect.keywords : keyword_in(kw, sentence.words)

\* A sentence scored by the lexicon scorer itself, whatever its length.
sentence_sentiment_lexicon(sentence) == _analyze_lexicon(sentence)

\* self.sentiment_analyzer.analyze(sentence, method='lexicon'): the aspect
\* analyzer owns an analyzer of its own, built with use_transformer=False.
sentence_sentiment(sentence) ==
    analyze(sentence, "lexicon", HandleNone, FALSE,
            [load |-> "none", infer |-> [label |-> "none", score |-> 0],
             compound |-> 0]).result

sentence_sentiments(sentences) ==
    [k \in 1 .. Len(sentences) |-> sentence_sentiment(sentences[k])]

\* aspect_data[aspect_key]['sentences']: the places of the sentences that
\* matched the aspect, in review order.
matched_places(aspect, sentences) ==
    SelectSeq([k \in 1 .. Len(sentences) |-> k],
              LAMBDA k : matched(aspect, sentences[k]))

\* The keys one more sentence adds to aspect_data: its aspects that are not
\* keys yet, in the order of self.ASPECTS (`taxonomy`).
aspect_keys_add(taxonomy, keys, sentence) ==
    keys \o SelectSeq([a \in 1 .. Len(taxonomy) |-> a],
                      LAMBDA a : /\ matched(taxonomy[a], sentence)
                                 /\ \A j \in 1 .. Len(keys) : keys[j] # a)

\* The keys of aspect_data after the first s sentences, in the order in which
\* the dict got them.
RECURSIVE aspect_keys(_, _, _)
aspect_keys(taxonomy, sentences, s) ==
    IF s = 0 THEN <<>>
    ELSE aspect_keys_add(taxonomy, aspect_keys(taxonomy, sentences, s - 1),
                         sentences[s])

\* A vote in which, of the labels with the highest count, the one that
\* occurred last wins.
most_common_last(labels) ==
    LET count(l) == Cardinality({k \in 1 .. Len(labels) : labels[k] = l})
        last(l) == CHOOSE k \in 1 .. Len(labels) :
                      labels[k] = l /\ \A j \in (k + 1) .. Len(labels) : labels[j] # l
    IN  CHOOSE l \in {labels[k] : k \in 1 .. Len(labels)} :
            \A m \in {labels[k] : k \in 1 .. Len(labels)} :
                count(l) > count(m) \/ (count(l) = count(m) /\ last(l) >= last(m))

\* Counter(labels).most_common(1)[0][0]: the label with the highest count;
\* a Counter keeps its keys in the order of their first occurrence and the
\* first of the highest counts is returned.
most_common(labels) ==
    LET count(l) == Cardinality({k \in 1 .. Len(labels) : labels[k] = l})
        first(l) == CHOOSE k \in 1 .. Len(labels) :
                       labels[k] = l /\ \A j \in 1 .. (k - 1) : labels[j] # l
    IN  CHOOSE l \in {labels[k] : k \in 1 .. Len(labels)} :
            \A m \in {labels[k] : k \in 1 .. Len(labels)} :
                count(l) > count(m) \/ (count(l) = count(m) /\ first(l) <= first(m))

\* np.mean(values), as the fraction num/den.
mean(values) == [num |-> SumSeq(values), den |-> Len(values)]

\* An evidence list of the last three matched sentences.
evidence_last(matched_sentences) ==
    SubSeq(matched_sentences, Max(1, Len(matched_sentences) - 2),
           Len(matched_sentences))

\* data['sentences'][:3]
evidence(matched_sentences) ==
    SubSeq(matched_sentences, 1, Min(3, Len(matched_sentences)))

\* The AspectSentiment of one key of aspect_data, `places` being the places
\* of its sentences.
AspectSentiment(aspect, sentences, sentiments, places) ==
    [aspect |-> aspect.key,
     sentiment |-> most_common([i \in 1 .. Len(places) |-> sentiments[places[i]].label]),
     confidence |-> mean([i \in 1 .. Len(places) |-> sentiments[places[i]].confidence]),
     mentions |-> Len(places),
     evidence |-> evidence([i \in 1 .. Len(places) |-> sentences[places[i]]])]

\* results: one AspectSentiment per key of aspect_data, in the keys' order.
aspect_results(taxonomy, sentences, sentiments, keys) ==
    [i \in 1 .. Len(keys) |->
        AspectSentiment(taxonomy[keys[i]], sentences, sentiments,
                        matched_places(taxonomy[keys[i]], sentences))]

aspects_of(taxonomy, sentences) ==
    aspect_results(taxonomy, sentences, sentence_sentiments(sentences),
                   aspect_keys(taxonomy, sentences, Len(sentences)))

\* AspectBasedAnalyzer.analyze(text) of an analyzer whose self.ASPECTS is
\* `taxonomy`.  A non-text value that is true cannot be split into
\* sentences: sent_tokenize and the regex fallback both raise.
analyze_aspects(taxonomy, text) ==
    IF ~Truthy(text) THEN [raised |-> FALSE, aspects |-> <<>>]
    ELSE IF ~IsStr(text) THEN [raised |-> TRUE, aspects |-> <<>>]
    ELSE [raised |-> FALSE,
          aspects |-> aspects_of(taxonomy, extract_sentences(text))]

\* AspectBasedAnalyzer.analyze(text) with the taxonomy of the class.
aspect_analyze(text) == analyze_aspects(ASPECTS, text)

\* AspectBasedAnalyzer.__init__ of a class whose ASPECTS is `taxonomy`: the
\* preprocessor and the sentiment analyzer are built and the table is not
\* looked at.
AspectBasedAnalyzer(taxonomy) == [raised |-> FALSE, ASPECTS |-> taxonomy]

\* The fraction num/den.
Ratio(num, den) == [num |-> num, den |-> den]

\* The AspectSentiments of all reviews, one after the other.
RECURSIVE all_mentions(_)
all_mentions(all_aspects) ==
    IF all_aspects = <<>> THEN <<>>
    ELSE Head(all_aspects) \o all_mentions(Tail(all_aspects))

\* Statistics in which an aspect's total is the sum of its mention counts.
aspect_stats_of_mentions(of_aspect) ==
    LET tally(label) == Cardinality({k \in 1 .. Len(of_aspect) :
                                        of_aspect[k].sentiment = label})
        total == SumSeq([k \in 1 .. Len(of_aspect) |-> of_aspect[k].mentions])
    IN  [total_mentions |-> total,
         positive |-> tally(POSITIVE),
         negative |-> tally(NEGATIVE),
         neutral |-> tally(NEUTRAL),
         positive_ratio |-> Ratio(tally(POSITIVE), total),
         negative_ratio |-> Ratio(tally(NEGATIVE), total),
         neutral_ratio |-> Ratio(tally(NEUTRAL), total),
         sentiment_score |-> Ratio(tally(POSITIVE) - tally(NEGATIVE), total)]

\* result[aspect] of aggregate, `of_aspect` being the AspectSentiments of
\* the aspect: each review that mentions the aspect adds one to `total` and
\* one to the tally of its label.
aspect_stats(of_aspect) ==
    LET total == Len(of_aspect)
        tally(label) == Cardinality({k \in 1 .. total : of_aspect[k].sentiment = label})
    IN  [total_mentions |-> total,
         positive |-> tally(POSITIVE),
         negative |-> tally(NEGATIVE),
         neutral |-> tally(NEUTRAL),
         positive_ratio |-> Ratio(tally(POSITIVE), total),
         negative_ratio |-> Ratio(tally(NEGATIVE), total),
         neutral_ratio |-> Ratio(tally(NEUTRAL), total),
         sentiment_score |-> Ratio(tally(POSITIVE) - tally(NEGATIVE), total)]

\* AspectBasedAnalyzer.aggregate(all_aspects): the statistics of every
\* aspect that some review mentions, by aspect key.
aggregate_mentions(mentions) ==
    [key \in {mentions[k].aspect : k \in 1 .. Len(mentions)} |->
        aspect_stats(SelectSeq(mentions, LAMBDA asp : asp.aspect = key))]

aggregate(all_aspects) == aggregate_mentions(all_mentions(all_aspects))

(*************************** ReviewQualityScorer ***************************)
\* round(x, 3) of the fraction num/den >= 0, in thousandths (ties to even).
\* The factor 1000 is cancelled against den when den is a multiple of it.
round3(num, den) ==
    LET cancel == IF den % 1000 = 0 THEN 1000 ELSE 1
        n == num * (1000 \div cancel)
        d == den \div cancel
        q == n \div d
        r == n % d
    IN  IF 2 * r > d \/ (2 * r = d /\ q % 2 = 1) THEN q + 1 ELSE q

\* An overall score that is the plain mean of the four sub-scores.
overall_unweighted(length, diversity, structure, substance, D) ==
    round3(length + diversity + structure + substance, 4 * D)

\* round(sum(scores[k] * weights[k] for k in weights), 3) with the weights
\* 0.2, 0.3, 0.2, 0.3, the sub-scores being fractions of D.
overall(length, diversity, structure, substance, D) ==
    round3(2 * length + 3 * diversity + 2 * structure + 3 * substance, 10 * D)

\* A scorer that gives up only on texts of fewer than 10 characters.
too_short_10(text) == TextLen(text) < 10

\* len(text) < 20: the text is not scored.
too_short(text) == TextLen(text) < 20

\* ReviewQualityScorer.score(text), overall in thousandths.  The four
\* sub-scores are fractions of D = 6000 * max(1, len(tokens)) * max(1,
\* len(sentences)); avg_len, the mean of len(s.split()) over the sentences,
\* is words / len(sentences).
quality_score(text) ==
    IF ~Truthy(text) THEN [raised |-> FALSE, overall |-> 0, details |-> <<>>]
    ELSE IF ~IsStr(text) THEN [raised |-> TRUE, overall |-> 0, details |-> <<>>]
    ELSE IF too_short(text) THEN [raised |-> FALSE, overall |-> 0, details |-> <<>>]
    ELSE LET length == TextLen(text)
             tokens == tokenize(text, TRUE, TRUE)
             n == Len(tokens)
             sentences == extract_sentences(text)
             D == 6000 * Max(1, n) * Max(1, Len(sentences))
             unique == Cardinality({tokens[k] : k \in 1 .. n})
             words == Len(split(text))
             content_words == Cardinality({k \in 1 .. n : Len(tokens[k]) > 3})
             length_score ==
                 IF length < 50 THEN (length * D) \div 50
                 ELSE IF length <= 800 THEN D
                 ELSE Max(D \div 2, D - ((length - 800) * D) \div 2000)
             diversity ==
                 IF n > 0 THEN Min((unique * 13 * D) \div (10 * n), D) ELSE 0
             structure ==
                 IF sentences = <<>> THEN (3 * D) \div 10
                 ELSE IF 8 * Len(sentences) <= words /\ words <= 25 * Len(sentences)
                      THEN D
                 ELSE IF words < 8 * Len(sentences)
                      THEN (words * D) \div (8 * Len(sentences))
                 ELSE Max((3 * D) \div 10,
                          D - ((words - 25 * Len(sentences)) * D)
                                  \div (30 * Len(sentences)))
             substance == Min((content_words * D) \div 10, D)
         IN  [raised |-> FALSE,
              overall |-> overall(length_score, diversity, structure, substance, D),
              details |-> [length |-> length_score, diversity |-> diversity,
                           structure |-> structure, substance |-> substance,
                           unit |-> D]]

(****************************** TopicModeler ******************************)
\* TextPreprocessor.clean(text): "" for a value that is false or no str;
\* otherwise the text with its whitespace collapsed and stripped (the model's
\* words hold no markup and no special character).
clean(text) ==
    IF ~Truthy(text) \/ ~IsStr(text) THEN Str(0, <<>>) ELSE Str(0, text.words)

\* A document fit keeps: doc and isinstance(doc, str) and len(doc) > 20, with
\* at least one token left by tokenize(clean(doc)).
usable(doc) ==
    /\ Truthy(doc) /\ IsStr(doc) /\ TextLen(doc) > 20
    /\ tokenize(clean(doc), TRUE, TRUE) # <<>>

\* A fit that keeps every document, the unusable ones too.
processed_places_all(documents, k) == [i \in 1 .. k |-> i]

\* processed: the places in `documents` of the first k documents' usable ones.
RECURSIVE processed_places(_, _)
processed_places(documents, k) ==
    IF k = 0 THEN <<>>
    ELSE IF usable(documents[k])
         THEN Append(processed_places(documents, k - 1), k)
         ELSE processed_places(documents, k - 1)

\* The terms TfidfVectorizer(ngram_range=(1, 2)) finds in one processed
\* document: its tokens and its pairs of adjacent tokens.
terms_of(doc) ==
    LET tokens == tokenize(clean(doc), TRUE, TRUE)
    IN  {<<tokens[k]>> : k \in 1 .. Len(tokens)}
            \cup {<<tokens[k], tokens[k + 1]>> : k \in 1 .. (Len(tokens) - 1)}

\* tfidf_matrix.shape[1]: the terms in at least min_df=3 documents and at most
\* max_df=0.85 of them, at most max_features=2000.
n_terms(documents, places) ==
    LET n == Len(places)
        all == UNION {terms_of(documents[places[k]]) : k \in 1 .. n}
        df(t) == Cardinality({k \in 1 .. n : t \in terms_of(documents[places[k]])})
    IN  Min(2000, Cardinality({t \in all : df(t) >= 3 /\ df(t) * 100 <= 85 * n}))

\* A term as the vectorizer names it: the tokens with a blank between them.
feature_name(term) ==
    IF Len(term) = 1 THEN term[1] ELSE term[1] \o " " \o term[2]

\* The terms of the model's reviews, in the alphabetical order of
\* get_feature_names_out().
term_order ==
    << "acting", "acting film", "acting movie", "cinematography", "film",
       "movie", "terrible", "terrible acting" >>

\* self.vectorizer.get_feature_names_out(): the names of the terms kept (in
\* at least min_df=3 documents and at most max_df=0.85 of them), sorted.
get_feature_names_out(documents, places) ==
    LET n == Len(places)
        all == UNION {terms_of(documents[places[k]]) : k \in 1 .. n}
        df(t) == Cardinality({k \in 1 .. n : t \in terms_of(documents[places[k]])})
        kept == {feature_name(t) : t \in {t \in all : df(t) >= 3 /\ df(t) * 100 <= 85 * n}}
    IN  SelectSeq(term_order, LAMBDA name : name \in kept)

\* TopicModeler(n_topics): vectorizer, model and feature_names are None and
\* doc_topics is not an attribute yet.
NewTopicModeler ==
    [vectorizer |-> "None", model |-> "None", feature_names |-> <<>>,
     n_components |-> 0, doc_topics |-> <<>>, has_doc_topics |-> FALSE]

\* A fit that gives up only when there are fewer than n_topics documents.
enough_documents_n(n_docs, n) == n_docs >= n

\* len(processed) < self.n_topics * 2 rejects the corpus.
enough_documents(n_docs, n) == n_docs >= n * 2

\* TopicModeler.fit(documents); kept is len(processed).  fit_transform of
\* the vectorizer raises when max_df * n_docs < min_df or no term is left;
\* NMF's raises when n_components < 1.  Both are caught: fit returns False,
\* with what was assigned before the exception left in place.
fit(documents, n, tm) ==
    LET places == processed_places(documents, Len(documents))
        n_docs == Len(places)
        terms == n_terms(documents, places)
        actual_n == Min(n, Min(n_docs - 1, terms - 1))
    IN  IF ~enough_documents(n_docs, n)
        THEN [ok |-> FALSE, raised |-> FALSE, kept |-> n_docs, tm |-> tm]
        ELSE IF 85 * n_docs < 3 * 100 \/ terms = 0
        THEN [ok |-> FALSE, raised |-> FALSE, kept |-> n_docs,
              tm |-> [tm EXCEPT !.vectorizer = "unfitted"]]
        ELSE IF actual_n < 1
        THEN [ok |-> FALSE, raised |-> FALSE, kept |-> n_docs,
              tm |-> [tm EXCEPT !.vectorizer = "fitted",
                                !.feature_names =
                                    get_feature_names_out(documents, places),
                                !.model = "unfitted"]]
        ELSE [ok |-> TRUE, raised |-> FALSE, kept |-> n_docs,
              tm |-> [vectorizer |-> "fitted", model |-> "fitted",
                      feature_names |-> get_feature_names_out(documents, places),
                      n_components |-> actual_n,
                      doc_topics |-> places, has_doc_topics |-> TRUE]]

\* self.topic_label_rules, in the order of the dict.  The labels of the
\* source are Chinese; each is written as its English gloss.
topic_label_rules ==
    << [keywords |-> {"plot", "story", "twist"}, label |-> "plot twist"],
       [keywords |-> {"acting", "actor", "performance"}, label |-> "acting"],
       [keywords |-> {"visual", "effect", "cgi"}, label |-> "visual effects"],
       [keywords |-> {"music", "score", "soundtrack"}, label |-> "music"],
       [keywords |-> {"director", "nolan", "vision"}, label |-> "directing style"],
       [keywords |-> {"pace", "slow", "boring"}, label |-> "pacing"],
       [keywords |-> {"character", "development", "depth"}, label |-> "characters"],
       [keywords |-> {"ending", "end", "conclusion"}, label |-> "ending"],
       [keywords |-> {"dialogue", "line", "script"}, label |-> "dialogue"],
       [keywords |-> {"emotion", "feel", "heart"}, label |-> "emotion"] >>

\* ', '.join(strings)
RECURSIVE join(_)
join(strings) ==
    IF strings = <<>> THEN ""
    ELSE IF Len(strings) = 1 THEN strings[1]
    ELSE strings[1] \o ", " \o join(Tail(strings))

\* A rule that takes the place of the best one when it scores as much.
beats_or_equals(score, best_score) == score >= best_score

\* if score > best_score
beats(score, best_score) == score > best_score

\* best_score and best_match after the first r rules of the table.
RECURSIVE best_rule(_, _)
best_rule(keywords_set, r) ==
    IF r = 0 THEN [best_score |-> 0, best_match |-> "None"]
    ELSE LET best == best_rule(keywords_set, r - 1)
             score == Cardinality(keywords_set \cap topic_label_rules[r].keywords)
         IN  IF beats(score, best.best_score)
             THEN [best_score |-> score, best_match |-> topic_label_rules[r].label]
             ELSE best

\* TopicModeler._generate_label(keywords)
_generate_label(keywords) ==
    LET keywords_set == {lower(keywords[k]) : k \in 1 .. Min(5, Len(keywords))}
        best == best_rule(keywords_set, Len(topic_label_rules))
    IN  IF best.best_match # "None" THEN best.best_match
        ELSE join(SubSeq(keywords, 1, Min(3, Len(keywords))))

\* The place of feature i in topic_weights.argsort(): the features in
\* ascending order of weight, equal weights in the order of their index.
argsort_place(topic_weights, i) ==
    1 + Cardinality({j \in 1 .. Len(topic_weights) :
                        \/ topic_weights[j] < topic_weights[i]
                        \/ topic_weights[j] = topic_weights[i] /\ j < i})

\* topic_weights.argsort()[:-n_words-1:-1]: the last n_words places of the
\* argsort, from the last one backwards.
top_indices(topic_weights, n_words) ==
    [k \in 1 .. Min(n_words, Len(topic_weights)) |->
        CHOOSE i \in 1 .. Len(topic_weights) :
            argsort_place(topic_weights, i) = Len(topic_weights) - k + 1]

\* self.doc_topics[:, idx] > 0.1, affinities in hundredths
above_threshold(affinity) == affinity > 10

\* The TopicInfo of component idx (from 1; its topic_id is idx - 1), the
\* factorization being the fitted model's components_ and doc_topics.
TopicInfo(idx, feature_names, n_words, factorization) ==
    LET topic_weights == factorization.components_[idx]
        top == top_indices(topic_weights, n_words)
        keywords == [k \in 1 .. Len(top) |-> feature_names[top[k]]]
    IN  [topic_id |-> idx - 1,
         keywords |-> keywords,
         keyword_weights |-> [k \in 1 .. Len(top) |-> topic_weights[top[k]]],
         num_docs |-> Cardinality({d \in 1 .. Len(factorization.doc_topics) :
                         above_threshold(factorization.doc_topics[d][idx])}),
         label |-> _generate_label(keywords)]

\* The place of topics[i] after topics.sort(key=num_docs, reverse=True):
\* the larger counts first, equal counts in the order they had.
sort_place(topics, i) ==
    1 + Cardinality({j \in 1 .. Len(topics) :
                        \/ topics[j].num_docs > topics[i].num_docs
                        \/ topics[j].num_docs = topics[i].num_docs /\ j < i})

sorted_topics(topics) ==
    [k \in 1 .. Len(topics) |->
        topics[CHOOSE i \in 1 .. Len(topics) : sort_place(topics, i) = k]]

\* TopicModeler.get_topics(n_words).  A model that was assigned but never
\* fitted has no components_: the loop header raises AttributeError.
get_topics(tm, n_words, factorization) ==
    IF tm.model = "None" THEN [raised |-> FALSE, topics |-> <<>>]
    ELSE IF tm.model # "fitted" THEN [raised |-> TRUE, topics |-> <<>>]
    ELSE [raised |-> FALSE,
          topics |-> sorted_topics([idx \in 1 .. tm.n_components |->
                        TopicInfo(idx, tm.feature_names, n_words, factorization)])]

\* TopicModeler.get_document_topics(): self.doc_topics if the attribute
\* exists, else None.
get_document_topics(tm) ==
    IF tm.has_doc_topics THEN [is_none |-> FALSE, doc_topics |-> tm.doc_topics]
    ELSE [is_none |-> TRUE, doc_topics |-> <<>>]

(******************************* NLPPipeline ******************************)
\* len(text.split()): None and an int have no split().
word_count(text) == Len(split(text))

\* What the caller holds of a call that raised.
NoReview == [sentiment |-> NoResult, aspects |-> <<>>, quality_score |-> 0,
             word_count |-> 0]

\* The return statement of analyze_review: ReviewAnalysis(...), whose
\* word_count=len(text.split()) raises for a text that is no str.
ReviewAnalysis(text, sentiment, aspects, quality) ==
    IF sentiment.raised \/ aspects.raised \/ quality.raised \/ ~IsStr(text)
    THEN [raised |-> TRUE, handle |-> sentiment.handle, review |-> NoReview]
    ELSE [raised |-> FALSE, handle |-> sentiment.handle,
          review |-> [sentiment |-> sentiment.result, aspects |-> aspects.aspects,
                      quality_score |-> quality.overall,
                      word_count |-> word_count(text)]]

\* NLPPipeline.analyze_review(text)
analyze_review(text, handle, use, env) ==
    ReviewAnalysis(text, analyze(text, "ensemble", handle, use, env),
                   aspect_analyze(text), quality_score(text))

\* df[text_column].fillna(''): a missing text becomes the empty str.
fillna(text) == IF text = None THEN Str(0, <<>>) ELSE text

\* One more result of the list batch_analyze builds.
batch_append(sofar, one) ==
    [raised |-> one.raised, handle |-> one.handle,
     results |-> IF one.raised THEN sofar.results
                 ELSE Append(sofar.results, one.result)]

\* self.analyze(text, method) for text k, unless an earlier one raised;
\* envs[k] is what the detectors do for text k.
batch_next(texts, k, sofar, use, envs) ==
    IF sofar.raised THEN sofar
    ELSE batch_append(sofar, analyze(texts[k], "ensemble", sofar.handle, use, envs[k]))

\* batch_analyze over the first k texts: one analyze after the other, the
\* classifier handle carried along; an exception ends the batch.
RECURSIVE batch_analyze(_, _, _, _, _)
batch_analyze(texts, k, handle, use, envs) ==
    IF k = 0 THEN [raised |-> FALSE, handle |-> handle, results |-> <<>>]
    ELSE batch_next(texts, k, batch_analyze(texts, k - 1, handle, use, envs), use, envs)

\* A row without the topic_id / topic_confidence columns.
NoTopic == [present |-> FALSE, doc |-> 0]

\* A frame that is given the topic columns whenever the modeler holds one row
\* of doc_topics per row of the frame, whatever the fit returned.
topic_columns_of_any_fit(texts, fitted, run_topics) ==
    /\ run_topics
    /\ fitted.tm.has_doc_topics
    /\ Len(fitted.tm.doc_topics) = Len(texts)

\* if run_topics: if self.topic_modeler.fit(texts): doc_topics = ...;
\* if doc_topics is not None and len(doc_topics) == len(df): the two topic
\* columns are written.
topic_columns(texts, fitted, run_topics) ==
    /\ run_topics /\ fitted.ok
    /\ fitted.tm.has_doc_topics
    /\ Len(fitted.tm.doc_topics) = Len(texts)

\* The frame process_dataframe returns: one row per input row, with the
\* sentiment, aspect and quality columns, and the topic columns when the fit
\* succeeds and kept as many documents as there are rows.  topic.doc is the
\* document whose row of doc_topics the row was given.  An exception of
\* batch_analyze leaves the call before the fit.
frame(texts, sentiments, fitted, run_topics, tm) ==
    IF sentiments.raised
    THEN [raised |-> TRUE, handle |-> sentiments.handle, tm |-> tm,
          fit_ok |-> FALSE, df |-> <<>>]
    ELSE [raised |-> FALSE, handle |-> sentiments.handle, tm |-> fitted.tm,
          fit_ok |-> fitted.ok,
          df |-> [k \in 1 .. Len(texts) |->
                    [sentiment_label |-> sentiments.results[k].label,
                     sentiment_score |-> sentiments.results[k].score,
                     sentiment_confidence |-> sentiments.results[k].confidence,
                     aspects |-> aspect_analyze(texts[k]).aspects,
                     quality_score |-> quality_score(texts[k]).overall,
                     topic |-> IF topic_columns(texts, fitted, run_topics)
                               THEN [present |-> TRUE, doc |-> fitted.tm.doc_topics[k]]
                               ELSE NoTopic]]]

\* texts = df[text_column].fillna('').tolist()
fillna_all(reviews) == [k \in 1 .. Len(reviews) |-> fillna(reviews[k])]

\* The body of process_dataframe after texts is built: the sentiments, then
\* the aspects and the qualities, then the fit if run_topics.
process_texts(texts, run_topics, handle, use, n, tm, envs) ==
    frame(texts, batch_analyze(texts, Len(texts), handle, use, envs),
          IF run_topics THEN fit(texts, n, tm)
          ELSE [ok |-> FALSE, raised |-> FALSE, kept |-> 0, tm |-> tm],
          run_topics, tm)

\* NLPPipeline.process_dataframe(df, run_topics)
process_dataframe(reviews, run_topics, handle, use, n, tm, envs) ==
    process_texts(fillna_all(reviews), run_topics, handle, use, n, tm, envs)

\* A summary that asks for the topics only of a model that has components.
topics_wanted_if_fitted(tm) == tm.model = "fitted"

\* if self.topic_modeler.model is not None: summary['topics'] = ...
topics_wanted(tm) == tm.model # "None"

\* NLPPipeline.get_summary(df).  get_topics reads self.model.components_: a
\* model that was assigned but never fitted has none (AttributeError).
get_summary(df, tm) ==
    LET count(label) == Cardinality({k \in 1 .. Len(df) : df[k].sentiment_label = label})
    IN  IF topics_wanted(tm) /\ tm.model # "fitted"
        THEN [raised |-> TRUE, total_reviews |-> 0,
              sentiment_distribution |-> [l \in {} |-> 0],
              positive_ratio |-> Ratio(0, 0),
              aspect_summary |-> [key \in {} |-> 0],
              has_topics |-> FALSE, n_topics |-> 0]
        ELSE [raised |-> FALSE,
              total_reviews |-> Len(df),
              sentiment_distribution |->
                  [l \in {x \in SentimentLabel : count(x) > 0} |-> count(l)],
              positive_ratio |-> Ratio(count(POSITIVE), Len(df)),
              aspect_summary |-> aggregate([k \in 1 .. Len(df) |-> df[k].aspects]),
              has_topics |-> topics_wanted(tm),
              n_topics |-> IF topics_wanted(tm) THEN tm.n_components ELSE 0]

(******************************** inputs **********************************)
RECURSIVE SeqsUpTo(_, _)
SeqsUpTo(S, n) ==
    IF n = 0 THEN {<<>>}
    ELSE LET shorter == SeqsUpTo(S, n - 1)
         IN  shorter \cup {Append(s, x) : s \in {t \in shorter : Len(t) = n - 1}, x \in S}

\* The words the lexicon scorer's texts are drawn from: lexicon words of both
\* signs, negation words, modifiers, a word of no table, a one-letter token.
LexVocab == {"good", "terrible", "not", "hardly", "very", "slightly", "film", "a"}

\* The diminishers a token can be (a token holds no blank).
SingleWordDiminishers == {"somewhat", "slightly", "barely", "hardly"}

\* Every word of the analyzer's tables, and the words of no table.
AllWords ==
    DOMAIN positive_words \cup DOMAIN negative_words \cup DOMAIN intensifiers
        \cup SingleWordDiminishers \cup negation_words
        \cup {"film", "a", "of", "bit", "little", "kind", "sort"}

\* The diminishers of two words, as the words of a text.
DiminisherPhrases ==
    {<<"kind", "of">>, <<"sort", "of">>, <<"a", "bit">>, <<"a", "little">>}

\* The texts of the lexicon scorer: those over LexVocab, every one- and
\* two-word text over the tables' words, and every lexicon word after a
\* two-word diminisher, alone or with an intensifier in front.
LexTexts ==
    {Str(0, w) : w \in SeqsUpTo(LexVocab, MaxWords)}
        \cup {Str(0, <<a>>) : a \in AllWords}
        \cup {Str(0, <<a, b>>) : a \in AllWords, b \in AllWords}
        \cup {Str(0, phrase \o <<w>>) :
                 phrase \in DiminisherPhrases,
                 w \in DOMAIN positive_words \cup DOMAIN negative_words}
        \cup {Str(0, <<"very">> \o phrase \o <<w>>) :
                 phrase \in DiminisherPhrases, w \in {"good", "terrible"}}

\* The words of the texts the analyzer's public entry point is called with.
SentVocab == {"a", "good", "terrible", "not", "very"}

SentTexts ==
    {None, NonText(0), NonText(123)}
        \cup {Str(l, w) : l \in 0 .. MaxLead, w \in SeqsUpTo(SentVocab, MaxSentWords)}

Methods == {"transformer", "vader", "lexicon", "ensemble"}

\* VADER's compound, in hundredths: the ends, the label thresholds, zero.
CompoundGrid == {-100, -5, -4, 0, 4, 5, 100}

\* The classifier's probability, in hundredths.
ProbGrid == {0, 60, 100}

Throw == [label |-> "throw", score |-> 0]
NoInference == [label |-> "none", score |-> 0]

InferOutcomes ==
    {Throw} \cup [label : {"POSITIVE", "NEGATIVE"}, score : ProbGrid]

\* What the environment does in one call, drawn only where the call consults
\* it: the load on the first use of the classifier, the inference when the
\* classifier is loaded, VADER's compound.
Envs(text, method, handle, use) ==
    LET asks == IsStr(text) /\ ~is_short(text) /\ method \in {"transformer", "ensemble"}
        loads == IF asks /\ handle = HandleNone /\ use THEN {"ok", "fail"} ELSE {"none"}
    IN  UNION {
          LET h == transformer(handle, use, [load |-> l])
          IN  [load : {l},
               infer : IF asks /\ h = HandleLoaded THEN InferOutcomes ELSE {NoInference},
               compound : IF IsStr(text) /\ ~is_short(text) /\ method # "lexicon"
                          THEN CompoundGrid ELSE {0}]
          : l \in loads }

NoEnv == [load |-> "none", infer |-> NoInference, compound |-> 0]

Idle == [op |-> "idle"]

(************************ the analyzer's callers **************************)
\* MultiModelSentimentAnalyzer(use_transformer)
SentInit ==
    /\ use_transformer \in BOOLEAN
    /\ _transformer = HandleNone
    /\ call = Idle
    /\ n_topics = 8
    /\ topic_modeler = NewTopicModeler
    /\ pipe = Idle

\* analyze(text, method)
Analyze ==
    /\ call.op = "idle"
    /\ \E text \in SentTexts, method \in Methods :
         \E env \in Envs(text, method, _transformer, use_transformer) :
            LET out == analyze(text, method, _transformer, use_transformer, env)
            IN  /\ call' = [op |-> "analyze", text |-> text, method |-> method,
                            env |-> env, before |-> _transformer, out |-> out]
                /\ _transformer' = out.handle
    /\ UNCHANGED <<use_transformer, pipeVars>>

\* The caller takes the result (or the exception).
Return ==
    /\ call.op \in {"analyze", "_analyze_lexicon"}
    /\ call' = Idle
    /\ UNCHANGED <<use_transformer, _transformer, pipeVars>>

SentNext == Analyze \/ Return

vars == <<use_transformer, _transformer, call, n_topics, topic_modeler, pipe>>

Spec == SentInit /\ [][SentNext]_vars

(************************ the lexicon scorer alone *************************)
\* The text is drawn first; the scorer is then applied to it, directly or
\* through analyze(text, method='lexicon').
LexInit ==
    /\ use_transformer = FALSE
    /\ _transformer = HandleNone
    /\ \E text \in LexTexts : call = [op |-> "pending", text |-> text]
    /\ n_topics = 8
    /\ topic_modeler = NewTopicModeler
    /\ pipe = Idle

AnalyzeLexicon ==
    /\ call.op = "pending"
    /\ call' = [op |-> "_analyze_lexicon", text |-> call.text, method |-> "lexicon",
                env |-> NoEnv, before |-> _transformer,
                out |-> Returned(_analyze_lexicon(call.text), _transformer, {"lexicon"})]
    /\ UNCHANGED <<use_transformer, _transformer, pipeVars>>

AnalyzeMethodLexicon ==
    /\ call.op = "pending"
    /\ LET out == analyze(call.text, "lexicon", _transformer, use_transformer, NoEnv)
       IN  /\ call' = [op |-> "analyze", text |-> call.text, method |-> "lexicon",
                       env |-> NoEnv, before |-> _transformer, out |-> out]
           /\ _transformer' = out.handle
    /\ UNCHANGED <<use_transformer, pipeVars>>

LexNext == AnalyzeLexicon \/ AnalyzeMethodLexicon

SpecLexicon == LexInit /\ [][LexNext]_vars

(****************************** the pipeline ******************************)
\* A review of three kept tokens and a review whose only kept token is one
\* domain word, both longer than 20 characters.
LongReview == Str(0, <<"terrible", "acting", "movie">>)
OneTermReview == Str(0, <<"cinematography", "this", "is", "it">>)

\* The texts analyze_review is called with: a missing text, an int, the empty
\* str and the two reviews.
PipeTexts == {None, NonText(123), Str(0, <<>>), LongReview, OneTermReview}

\* A review of 9 characters, one of 25 characters that are all stop words,
\* and one of exactly 20 characters that keeps three tokens.
ShortReview == Str(0, <<"good", "film">>)
StopwordReview == Str(0, <<"this", "is", "it", "and", "this", "is", "it">>)
TwentyReview == Str(0, <<"terrible", "acting", "film">>)

\* The texts of a frame's column: fillna('') makes the empty str of a missing
\* text.
FrameTexts == {None, NonText(123), LongReview, OneTermReview}

\* The documents fit is called with: one of each kind it drops (no str, not
\* longer than 20, no token left; frames bring it the empty str), the review
\* of 20 characters and the two longer reviews.
FitTexts ==
    {NonText(123), ShortReview, StopwordReview, TwentyReview, LongReview,
     OneTermReview}

MaxReviews == 4

MaxTopics == 2

\* A corpus the fit succeeds on: MaxReviews - 1 long reviews and a one-term
\* review.
FittingReviews ==
    [k \in 1 .. MaxReviews |-> IF k < MaxReviews THEN LongReview ELSE OneTermReview]

\* seq with x put in at place k
InsertAt(seq, k, x) ==
    SubSeq(seq, 1, k - 1) \o <<x>> \o SubSeq(seq, k, Len(seq))

\* The frames of one row more: the fitting corpus with a missing text at one
\* place.
DiscardFrames ==
    {InsertAt(FittingReviews, k, None) : k \in 1 .. MaxReviews + 1}

\* The frames process_dataframe is called with: up to MaxReviews rows, at
\* most one of them, anywhere, with a cell that is missing or no text, and the
\* long reviews above the one-term ones; and the frames of one row more.
Frames ==
    {reviews \in SeqsUpTo(FrameTexts, MaxReviews) \ {<<>>} :
        /\ Cardinality({k \in 1 .. Len(reviews) : ~IsStr(reviews[k])}) <= 1
        /\ \A j, k \in 1 .. Len(reviews) :
              (reviews[j] = OneTermReview /\ reviews[k] = LongReview) => k < j}
      \cup DiscardFrames

Corpora == SeqsUpTo(FitTexts, MaxReviews)

\* What the detectors do during one pipeline call: the classifier loads (if
\* it is asked for the first time), is sure of POSITIVE and VADER's compound
\* is 1.0; or the classifier fails to load, throws if it was loaded before,
\* and VADER's compound is -1.0.
PipeEnvs(handle, use) ==
    LET first == use /\ handle = HandleNone
    IN  { [load |-> IF first THEN "ok" ELSE "none",
           infer |-> [label |-> "POSITIVE", score |-> 100], compound |-> 100],
          [load |-> IF first THEN "fail" ELSE "none",
           infer |-> Throw, compound |-> -100] }

\* NLPPipeline(use_transformer, n_topics)
PipeInit ==
    /\ use_transformer \in BOOLEAN
    /\ _transformer = HandleNone
    /\ call = Idle
    /\ n_topics \in 1 .. MaxTopics
    /\ topic_modeler = NewTopicModeler
    /\ pipe = Idle

\* analyze_review(text)
AnalyzeReview ==
    /\ pipe.op = "idle"
    /\ \E text \in PipeTexts :
         \E env \in PipeEnvs(_transformer, use_transformer) :
            pipe' = [op |-> "analyze_review", reviews |-> <<text>>,
                     before |-> topic_modeler,
                     out |-> analyze_review(text, _transformer, use_transformer, env)]
    /\ _transformer' = pipe'.out.handle
    /\ UNCHANGED <<use_transformer, call, n_topics, topic_modeler>>

\* process_dataframe(df) with run_topics left at True; the detectors do the
\* same for every text of the frame.
ProcessDataframe ==
    /\ pipe.op = "idle"
    /\ \E reviews \in Frames :
         \E env \in PipeEnvs(_transformer, use_transformer) :
            pipe' = [op |-> "process_dataframe", reviews |-> reviews,
                     before |-> topic_modeler,
                     out |-> process_dataframe(reviews, TRUE, _transformer,
                                               use_transformer, n_topics,
                                               topic_modeler,
                                               [k \in 1 .. Len(reviews) |-> env])]
    /\ _transformer' = pipe'.out.handle
    /\ topic_modeler' = pipe'.out.tm
    /\ UNCHANGED <<use_transformer, call, n_topics>>

\* get_summary(df) on the frame process_dataframe has just returned
GetSummary ==
    /\ pipe.op = "process_dataframe"
    /\ ~pipe.out.raised
    /\ pipe' = [op |-> "get_summary", reviews |-> pipe.reviews,
                before |-> topic_modeler, frame |-> pipe.out,
                out |-> get_summary(pipe.out.df, topic_modeler)]
    /\ UNCHANGED <<sentVars, n_topics, topic_modeler>>

\* topic_modeler.fit(documents)
Fit ==
    /\ pipe.op = "idle"
    /\ \E documents \in Corpora :
         pipe' = [op |-> "fit", reviews |-> documents, before |-> topic_modeler,
                  out |-> fit(documents, n_topics, topic_modeler)]
    /\ topic_modeler' = pipe'.out.tm
    /\ UNCHANGED <<sentVars, n_topics>>

\* The caller takes the result (or the exception).
PipeReturn ==
    /\ pipe.op \in {"analyze_review", "process_dataframe", "get_summary", "fit",
                   "aspect_analyze", "score", "construct", "aggregate",
                   "_generate_label", "get_topics"}
    /\ pipe' = Idle
    /\ UNCHANGED <<sentVars, n_topics, topic_modeler>>

PipeNext == AnalyzeReview \/ ProcessDataframe \/ GetSummary \/ PipeReturn

SpecPipeline == PipeInit /\ [][PipeNext]_vars

\* The topic modeler of a pipeline, called directly.
FitNext == Fit \/ PipeReturn

SpecFit == PipeInit /\ [][FitNext]_vars

(**************************** the topic modeler ***************************)
\* The most keywords _generate_label is called with.
MaxKeywords == 6

\* The keywords of a topic: one of the first rule, two of the second (one
\* with a capital) and four of no rule.
LabelWords == {"plot", "acting", "Actor", "movie", "film", "terrible", "good"}

\* The lists of exactly n different keywords.
RECURSIVE DistinctLists(_)
DistinctLists(n) ==
    IF n = 0 THEN {<<>>}
    ELSE UNION {{Append(keywords, word) :
                    word \in LabelWords \ {keywords[k] : k \in 1 .. Len(keywords)}} :
                keywords \in DistinctLists(n - 1)}

\* The keyword lists: up to MaxKeywords different keywords.
KeywordLists == UNION {DistinctLists(n) : n \in 0 .. MaxKeywords}

\* topic_modeler._generate_label(keywords)
GenerateLabel ==
    /\ pipe.op = "idle"
    /\ \E keywords \in KeywordLists :
         pipe' = [op |-> "_generate_label", reviews |-> <<>>,
                  before |-> topic_modeler, keywords |-> keywords,
                  out |-> [raised |-> FALSE, label |-> _generate_label(keywords)]]
    /\ UNCHANGED <<sentVars, n_topics, topic_modeler>>

\* The corpora the topic modeler is fitted on: up to MaxReviews of the two
\* reviews that fit keeps.
TopicCorpora == SeqsUpTo({LongReview, OneTermReview}, MaxReviews)

\* topic_modeler.fit(documents) on one of the corpora
FitCorpus ==
    /\ pipe.op = "idle"
    /\ \E documents \in TopicCorpora :
         pipe' = [op |-> "fit", reviews |-> documents, before |-> topic_modeler,
                  out |-> fit(documents, n_topics, topic_modeler)]
    /\ topic_modeler' = pipe'.out.tm
    /\ UNCHANGED <<sentVars, n_topics>>

\* The rows of components_ NMF may have found, one weight per feature:
\* rising, falling, with equal weights between others, all equal.
WeightRows(n_features) ==
    { [i \in 1 .. n_features |-> i],
      [i \in 1 .. n_features |-> n_features + 1 - i],
      [i \in 1 .. n_features |-> 1 + (i % 2)],
      [i \in 1 .. n_features |-> 1] }

\* The affinities of a document to a component, in hundredths: the
\* threshold itself and a value above it.
AffinityGrid == {10, 20}

\* What the fitted NMF holds: components_, one row per component, and
\* doc_topics, one row per document kept.  Nothing for a model that is None
\* or was never fitted.
Factorizations(tm) ==
    IF tm.model # "fitted" THEN {[components_ |-> <<>>, doc_topics |-> <<>>]}
    ELSE [components_ : [1 .. tm.n_components -> WeightRows(Len(tm.feature_names))],
          doc_topics : [1 .. Len(tm.doc_topics) ->
                           [1 .. tm.n_components -> AffinityGrid]]]

\* get_topics(n_words) asked for 2 keywords or for the default 10
NWords == {2, 10}

\* topic_modeler.get_topics(n_words)
GetTopics ==
    /\ pipe.op = "idle"
    /\ \E n_words \in NWords :
         \E factorization \in Factorizations(topic_modeler) :
            pipe' = [op |-> "get_topics", reviews |-> <<>>,
                     before |-> topic_modeler, n_words |-> n_words,
                     factorization |-> factorization,
                     out |-> get_topics(topic_modeler, n_words, factorization)]
    /\ UNCHANGED <<sentVars, n_topics, topic_modeler>>

TopicNext == GenerateLabel \/ FitCorpus \/ GetTopics \/ PipeReturn

SpecTopics == PipeInit /\ [][TopicNext]_vars

(*************************** the aspect analyzer **************************)
\* The most sentences of a review.
MaxSentences == 3

\* The sentences the reviews are made of.  Each has a word and is ended by
\* its mark, but the last one, which runs into the sentence after it.
\* "a friend." and "bad plot." are 9 characters long, the others 10 or more.
SentenceTemplates ==
    << <<"brilliant", "acting", ".">>,
       <<"terrible", "acting", "!">>,
       <<"the", "Acting", ".">>,
       <<"a", "friend", ".">>,
       <<"good", "movie", ".">>,
       <<"boring", "plot", "?">>,
       <<"hans", "zimmer", ".">>,
       <<"bad", "plot", ".">>,
       <<"perfect", "ending">> >>

RECURSIVE Concat(_)
Concat(seqs) == IF seqs = <<>> THEN <<>> ELSE Head(seqs) \o Concat(Tail(seqs))

\* The sentences of the longer reviews: two about the acting and one about
\* the plot and the pacing.
RepeatedTemplates == {1, 2, 6}

\* The reviews the aspect analyzer is called with: a missing text, an int,
\* the empty str and every text of up to MaxSentences of the sentences, and
\* the texts of MaxSentences + 1 of the repeated ones.
AspectTexts ==
    {None, NonText(123)}
        \cup { Str(0, Concat([k \in 1 .. Len(choice) |-> SentenceTemplates[choice[k]]])) :
                 choice \in SeqsUpTo(1 .. Len(SentenceTemplates), MaxSentences) }
        \cup { Str(0, Concat([k \in 1 .. (MaxSentences + 1) |->
                                 SentenceTemplates[choice[k]]])) :
                 choice \in [1 .. (MaxSentences + 1) -> RepeatedTemplates] }

\* aspect_analyzer.analyze(text)
AspectAnalyze ==
    /\ pipe.op = "idle"
    /\ \E text \in AspectTexts :
         pipe' = [op |-> "aspect_analyze", reviews |-> <<text>>,
                  before |-> topic_modeler, out |-> aspect_analyze(text)]
    /\ UNCHANGED <<sentVars, n_topics, topic_modeler>>

\* The two reviews of the example corpus.
ExampleReviews ==
    << Str(0, <<"This", "movie", "is", "absolutely", "terrible", ",",
                "the", "acting", "was", "awful", ".">>),
       Str(0, <<"A", "masterpiece", "!", "Brilliant", "acting", "and", "a",
                "perfect", "ending", ".">>) >>

\* What the detectors do for a review that is plainly of one polarity: the
\* classifier loads or fails to load (when it is asked for the first time),
\* throws or finds the polarity with probability 0.6 or 1.0; VADER's
\* compound has the sign of the polarity.
ExampleEnvs(polarity) ==
    [load : {"ok", "fail"},
     infer : {Throw} \cup [label : {IF polarity = POSITIVE THEN "POSITIVE" ELSE "NEGATIVE"},
                           score : ProbGrid \ {0}],
     compound : IF polarity = POSITIVE THEN {c \in CompoundGrid : c > 0}
                ELSE {c \in CompoundGrid : c < 0}]

\* process_dataframe(df) on the frame of the two example reviews
ProcessExample ==
    /\ pipe.op = "idle"
    /\ \E first \in ExampleEnvs(NEGATIVE) :
         \E second \in ExampleEnvs(POSITIVE) :
            pipe' = [op |-> "process_dataframe", reviews |-> ExampleReviews,
                     before |-> topic_modeler,
                     out |-> process_dataframe(ExampleReviews, TRUE, _transformer,
                                               use_transformer, n_topics,
                                               topic_modeler, <<first, second>>)]
    /\ _transformer' = pipe'.out.handle
    /\ topic_modeler' = pipe'.out.tm
    /\ UNCHANGED <<use_transformer, call, n_topics>>

\* The blanks before a padded text: the text ends a little below or above
\* 800 characters, between 800 and 1800, and above 1800.
LongLeads == {780, 790, 1000, 2000}

\* The lengths of the one-sentence texts of one repeated word: 8 and 25
\* words, the ends of the best band, 26 words, and 50 words.
SentenceLengths == {8, 25, 26, 50}

\* The most sentences of the scored texts that are made of any of the
\* sentences.
MaxScoredSentences == 2

\* The texts of the aspect analyzer that the quality scorer is given: those
\* of up to MaxScoredSentences sentences and those of the repeated ones.
ScoredTexts ==
    { Str(0, Concat([k \in 1 .. Len(choice) |-> SentenceTemplates[choice[k]]])) :
        choice \in SeqsUpTo(1 .. Len(SentenceTemplates), MaxScoredSentences) }
        \cup { Str(0, Concat([k \in 1 .. (MaxSentences + 1) |->
                                 SentenceTemplates[choice[k]]])) :
                 choice \in [1 .. (MaxSentences + 1) -> RepeatedTemplates] }

\* The texts the quality scorer is called with: texts of the aspect
\* analyzer, and the same after up to MaxLead blanks; the texts of one
\* sentence or none after many blanks; sentences of many words.
QualityTexts ==
    {None, NonText(123)}
        \cup {Str(lead, text.words) : lead \in 0 .. MaxLead, text \in ScoredTexts}
        \cup {Str(lead, SentenceTemplates[k]) :
                 lead \in LongLeads, k \in 1 .. Len(SentenceTemplates)}
        \cup {Str(0, [k \in 1 .. n |-> "movie"] \o <<".">>) : n \in SentenceLengths}

\* quality_scorer.score(text)
Score ==
    /\ pipe.op = "idle"
    /\ \E text \in QualityTexts :
         pipe' = [op |-> "score", reviews |-> <<text>>,
                  before |-> topic_modeler, out |-> quality_score(text)]
    /\ UNCHANGED <<sentVars, n_topics, topic_modeler>>

\* NLPPipeline(use_transformer) with n_topics left at its default, 8
AspectInit ==
    /\ use_transformer \in BOOLEAN
    /\ _transformer = HandleNone
    /\ call = Idle
    /\ n_topics = 8
    /\ topic_modeler = NewTopicModeler
    /\ pipe = Idle

\* The aspect tables an analyzer class is given: the one of the source, the
\* empty one, and one whose only aspect has no keyword.
Taxonomies == {ASPECTS, <<>>, <<[key |-> "acting", keywords |-> {}]>>}

\* AspectBasedAnalyzer() of a class with one of the tables
Construct ==
    /\ pipe.op = "idle"
    /\ \E taxonomy \in Taxonomies :
         pipe' = [op |-> "construct", reviews |-> <<>>, before |-> topic_modeler,
                  analyzer |-> AspectBasedAnalyzer(taxonomy),
                  out |-> [raised |-> FALSE, aspects |-> <<>>]]
    /\ UNCHANGED <<sentVars, n_topics, topic_modeler>>

\* analyze(text) on the analyzer that has been constructed
AnalyzeConstructed ==
    /\ pipe.op = "construct"
    /\ ~pipe.analyzer.raised
    /\ \E text \in {t \in AspectTexts : IsStr(t) /\ Len(extract_sentences(t)) <= 1} :
         pipe' = [pipe EXCEPT !.reviews = <<text>>,
                              !.out = analyze_aspects(pipe.analyzer.ASPECTS, text)]
    /\ UNCHANGED <<sentVars, n_topics, topic_modeler>>

\* The reviews whose aspect lists are aggregated: no aspect, 'acting' with
\* each of the three labels, 'acting' in two sentences, 'plot' and 'pacing'
\* in one sentence.
AggregateReviews ==
    { Str(0, <<"good", "movie", ".">>),
      Str(0, <<"brilliant", "acting", ".">>),
      Str(0, <<"terrible", "acting", "!">>),
      Str(0, <<"the", "Acting", ".">>),
      Str(0, <<"brilliant", "acting", ".", "terrible", "acting", "!">>),
      Str(0, <<"boring", "plot", "?">>) }

\* aspect_analyzer.aggregate(all_aspects) on the aspect lists of up to
\* MaxReviews reviews
Aggregate ==
    /\ pipe.op = "idle"
    /\ \E reviews \in SeqsUpTo(AggregateReviews, MaxReviews) :
         pipe' = [op |-> "aggregate", reviews |-> reviews,
                  before |-> topic_modeler,
                  out |-> [raised |-> FALSE,
                           result |-> aggregate([k \in 1 .. Len(reviews) |->
                                          aspect_analyze(reviews[k]).aspects])]]
    /\ UNCHANGED <<sentVars, n_topics, topic_modeler>>

\* The aspect analyzer of a pipeline, called directly.
AspectNext ==
    AspectAnalyze \/ Construct \/ AnalyzeConstructed \/ Aggregate \/ PipeReturn

SpecAspects == AspectInit /\ [][AspectNext]_vars

\* The quality scorer called directly, and the pipeline on single reviews and
\* on the example corpus.
QualityNext ==
    Score \/ AnalyzeReview \/ ProcessExample \/ GetSummary \/ PipeReturn

SpecQuality == AspectInit /\ [][QualityNext]_vars

(******************************* claims ***********************************)
\* A call of analyze has returned (or raised) and its outcome is in call.out.
Analyzed == call.op = "analyze"
EnsembleCall == Analyzed /\ call.method = "ensemble"
\* An ensemble call that went past the short-text guard and returned a result.
Fused == EnsembleCall /\ IsStr(call.text) /\ ~call.out.raised /\ call.out.results # <<>>

IsDefault(out) ==
    /\ ~out.raised
    /\ out.result.label = NEUTRAL
    /\ out.result.score * 2 = Unit
    /\ out.result.confidence = 0

\* C1 (as stated): every text with fewer than 10 non-whitespace characters gets
\* neutral / 0.5 / 0.0 from the ensemble method and no detector is invoked.
C1_FewNonWhitespace ==
    (EnsembleCall /\ IsStr(call.text) /\ NonWhitespace(call.text) < 10)
        => (IsDefault(call.out) /\ call.out.invoked = {})

\* C1 (amended): every text that is None, empty, or shorter than 10 characters
\* once leading and trailing whitespace is stripped gets neutral / 0.5 / 0.0
\* from the ensemble method, no detector is invoked and the classifier is not
\* loaded.
C1_ShortStripped ==
    (EnsembleCall /\ (call.text = None
                        \/ (IsStr(call.text) /\ StripLen(call.text) < 10)))
        => /\ IsDefault(call.out)
           /\ call.out.result.method = "default"
           /\ call.out.invoked = {}
           /\ call.out.handle = call.before

\* A text with a lexicon word and leading whitespace, 10 characters long but
\* under 10 once stripped, has been answered by the default.
C1_Witness ==
    /\ EnsembleCall /\ IsStr(call.text)
    /\ call.text.lead > 0 /\ TextLen(call.text) >= 10 /\ StripLen(call.text) < 10
    /\ \E i \in 1 .. Len(call.text.words) : call.text.words[i] \in DOMAIN positive_words
    /\ IsDefault(call.out)

\* C2: the ensemble's score is the weight-normalized average of the scores of
\* the participating detectors, so it lies between their minimum and maximum,
\* whether or not their labels agree.
C2_ConvexScore ==
    Fused =>
        LET rs == call.out.results
            w == call.out.result.details.weights
            score == call.out.result.score
        IN  /\ Len(rs) \in {2, 3} /\ Len(w) = Len(rs)
            /\ score * SumSeq(w) = SumSeq([i \in 1 .. Len(rs) |-> rs[i].score * w[i]])
            /\ \E i \in 1 .. Len(rs) : rs[i].score <= score
            /\ \E i \in 1 .. Len(rs) : score <= rs[i].score

\* Three detectors with three different labels were fused into a score
\* strictly between the lowest and the highest of theirs.
C2_Witness ==
    /\ Fused /\ Len(call.out.results) = 3
    /\ Cardinality({call.out.results[i].label : i \in 1 .. 3}) = 3
    /\ \E i \in 1 .. 3 : call.out.results[i].score < call.out.result.score
    /\ \E i \in 1 .. 3 : call.out.result.score < call.out.results[i].score

\* The classifier gave this call nothing: it is disabled, its load failed
\* (earlier or in this call), or the inference threw.
ClassifierUnavailable ==
    \/ ~use_transformer
    \/ call.before = HandleFalse
    \/ call.env.load = "fail"
    \/ call.env.infer.label = "throw"

\* C3: the classifier step never raises; when the classifier is disabled,
\* failed to load or throws, it yields None and the ensemble still returns a
\* result built from the rule-based and the lexicon detector only.
C3_ClassifierFailsSoft ==
    /\ (Analyzed /\ IsStr(call.text)) => ~call.out.raised
    /\ (EnsembleCall /\ IsStr(call.text) /\ ~is_short(call.text) /\ ClassifierUnavailable)
           => /\ call.out.result.method = "ensemble"
              /\ call.out.result.details.transformer = "None"
              /\ call.out.results = <<_analyze_vader(call.text, call.env),
                                      _analyze_lexicon(call.text)>>
              /\ call.out.result.label \in {call.out.results[1].label,
                                            call.out.results[2].label}

\* The loaded classifier threw during inference and the ensemble returned a
\* result of two detectors.
C3_Witness ==
    /\ Fused /\ call.out.handle = HandleLoaded /\ call.env.infer.label = "throw"
    /\ Len(call.out.results) = 2
    /\ call.out.result.method = "ensemble"

\* C4: the weights of an ensemble call are exactly 0.5 / 0.3 / 0.2 (classifier,
\* rule-based, lexicon) when the classifier produced a result for that call and
\* exactly 0.5 / 0.5 when it did not; either way they sum to 1.
C4_Weights ==
    Fused =>
        LET w == call.out.result.details.weights
            methods == [i \in 1 .. Len(call.out.results) |-> call.out.results[i].method]
            produced == call.out.handle = HandleLoaded
                            /\ call.env.infer.label \in {"POSITIVE", "NEGATIVE"}
        IN  /\ produced => (w = <<5, 3, 2>> /\ methods = <<"transformer", "vader", "lexicon">>)
            /\ ~produced => (w = <<5, 5>> /\ methods = <<"vader", "lexicon">>)
            /\ SumSeq(w) = 10

\* The classifier produced a result and the three weights were used.
C4_Witness ==
    /\ Fused /\ call.env.infer.label = "NEGATIVE"
    /\ call.out.result.details.weights = <<5, 3, 2>>
    /\ call.out.result.details.transformer = NEGATIVE

\* The lexicon scorer was applied directly, to the text drawn by LexInit.
ScoredDirectly == call.op = "_analyze_lexicon"

\* The tokens the scorer sees, and the places of the lexicon words among them.
ScoredTokens == tokenize(call.text, FALSE, FALSE)
LexiconPlaces(tokens) ==
    {i \in 1 .. Len(tokens) :
        tokens[i] \in DOMAIN positive_words \cup DOMAIN negative_words}
HasOneLexiconWord == Cardinality(LexiconPlaces(ScoredTokens)) = 1
TheLexiconPlace == CHOOSE i \in LexiconPlaces(ScoredTokens) : TRUE

\* A negation word stands 1, 2 or 3 tokens before place i.
NegationWithin3(tokens, i) ==
    \E j \in 1 .. Len(tokens) : tokens[j] \in negation_words /\ j < i /\ i - j <= 3

\* The same text with every negation word replaced by a word of no table.
Unnegated(text) ==
    Str(text.lead, [k \in 1 .. Len(text.words) |->
                        IF text.words[k] \in negation_words THEN "film" ELSE text.words[k]])

\* The token right before place i is a negation word that is a diminisher too.
NegatorDiminishes(tokens, i) ==
    i > 1 /\ tokens[i - 1] \in negation_words /\ tokens[i - 1] \in DOMAIN diminishers

ModifiedPositiveWord ==
    /\ HasOneLexiconWord
    /\ TheLexiconPlace > 1
    /\ ScoredTokens[TheLexiconPlace] \in DOMAIN positive_words
    /\ \A k \in 1 .. Len(call.text.words) : call.text.words[k] \notin negation_words

\* C6 (as stated): through either entry point of the lexicon scorer,
\* score(i w) >= score(w) >= score(d w) for a positive word w, an intensifier
\* i and a single-word diminisher d.
C6_ModifierMonotone ==
    (call.op \in {"_analyze_lexicon", "analyze"} /\ ~call.out.raised /\ ModifiedPositiveWord) =>
        LET w == Str(0, <<ScoredTokens[TheLexiconPlace]>>)
            prev == ScoredTokens[TheLexiconPlace - 1]
            alone == IF ScoredDirectly THEN _analyze_lexicon(w)
                     ELSE analyze(w, "lexicon", HandleNone, FALSE, NoEnv).result
        IN  /\ prev \in DOMAIN intensifiers => call.out.result.score >= alone.score
            /\ prev \in SingleWordDiminishers => call.out.result.score <= alone.score

\* C6 (amended): for _analyze_lexicon applied to the texts themselves, and
\* through analyze(method='lexicon') when the word w alone is at least 10
\* characters long, score(i w) >= score(w) >= score(d w) for a positive word
\* w, an intensifier i and a single-word diminisher d, in a text with no
\* negation word and no other lexicon word.
C6_ModifierMonotoneUnguarded ==
    (call.op \in {"_analyze_lexicon", "analyze"} /\ ~call.out.raised /\ ModifiedPositiveWord) =>
        LET w == Str(0, <<ScoredTokens[TheLexiconPlace]>>)
            prev == ScoredTokens[TheLexiconPlace - 1]
            alone == IF ScoredDirectly THEN _analyze_lexicon(w)
                     ELSE analyze(w, "lexicon", HandleNone, FALSE, NoEnv).result
        IN  (ScoredDirectly \/ StripLen(w) >= 10) =>
                /\ prev \in DOMAIN intensifiers => call.out.result.score >= alone.score
                /\ prev \in SingleWordDiminishers => call.out.result.score <= alone.score

\* "slightly good" has been scored by _analyze_lexicon, strictly lower than "good".
C6_Witness ==
    /\ ScoredDirectly /\ call.text.words = <<"slightly", "good">>
    /\ call.out.result.score < _analyze_lexicon(Str(0, <<"good">>)).score
    /\ _analyze_lexicon(Str(0, <<"very", "good">>)).score
           > _analyze_lexicon(Str(0, <<"good">>)).score

InUnitRange(r) ==
    /\ r.label \in SentimentLabel
    /\ 0 <= r.score /\ r.score <= Unit
    /\ 0 <= r.confidence /\ r.confidence <= Unit

\* C7: every SentimentResult of every scoring path (the default, lexicon,
\* rule-based, classifier, ensemble) has one label of positive / negative /
\* neutral, a score in [0,1] and a confidence in [0,1], also when an
\* intensifier takes the averaged lexicon weight outside [-2,2].
C7_ResultInRange ==
    (Analyzed /\ ~call.out.raised) =>
        /\ InUnitRange(call.out.result)
        /\ call.out.result.method \in
               {"default", "lexicon", "vader", "transformer", "ensemble"}
        /\ \A i \in 1 .. Len(call.out.results) : InUnitRange(call.out.results[i])

\* The lexicon path returned a clamped score: the averaged weight was beyond 2.
C7_Witness ==
    /\ Analyzed /\ ~call.out.raised /\ call.method = "lexicon"
    /\ call.out.result.method = "lexicon"
    /\ call.out.result.details.word_count > 0
    /\ Abs(call.out.result.details.raw_score) > 200 * call.out.result.details.word_count
    /\ call.out.result.score \in {0, Unit}

\* A review text that is null, empty or not a text.
Malformed(text) == text = None \/ ~IsStr(text) \/ text = Str(0, <<>>)

\* The places of the malformed records of a batch.
MalformedPlaces(reviews) == {k \in 1 .. Len(reviews) : Malformed(reviews[k])}

\* The defaults of a record that cannot be analysed: neutral sentiment with
\* score 0.5 and confidence 0, no aspects, quality 0.0.
NeutralRow(row) ==
    /\ row.sentiment_label = NEUTRAL
    /\ row.sentiment_score * 2 = Unit
    /\ row.sentiment_confidence = 0
    /\ row.aspects = <<>>
    /\ row.quality_score = 0

\* C8: for a null, empty or non-text review text the analysis never raises:
\* analyze_review returns neutral sentiment (score 0.5, confidence 0), no
\* aspects and quality 0.0; process_dataframe over a batch with one such
\* record returns a row for every record, with the defaults in that row.
C8_MalformedNeverRaises ==
    /\ (pipe.op = "analyze_review" /\ Malformed(pipe.reviews[1]))
         => /\ ~pipe.out.raised
            /\ pipe.out.review.sentiment.label = NEUTRAL
            /\ pipe.out.review.sentiment.score * 2 = Unit
            /\ pipe.out.review.sentiment.confidence = 0
            /\ pipe.out.review.aspects = <<>>
            /\ pipe.out.review.quality_score = 0
    /\ (pipe.op = "process_dataframe"
          /\ Cardinality(MalformedPlaces(pipe.reviews)) = 1)
         => /\ ~pipe.out.raised
            /\ Len(pipe.out.df) = Len(pipe.reviews)
            /\ \A k \in MalformedPlaces(pipe.reviews) : NeutralRow(pipe.out.df[k])

\* C9: get_summary(process_dataframe(reviews))['total_reviews'] is the number
\* of reviews, for every non-empty collection of reviews, whether or not the
\* topic fit succeeds.  Stated for collections of texts (str) only, where no
\* record is malformed.
C9_TotalReviews ==
    /\ (pipe.op = "process_dataframe" /\ \A k \in 1 .. Len(pipe.reviews) : IsStr(pipe.reviews[k]))
         => (~pipe.out.raised /\ Len(pipe.out.df) = Len(pipe.reviews))
    /\ (pipe.op = "get_summary" /\ \A k \in 1 .. Len(pipe.reviews) : IsStr(pipe.reviews[k]))
         => (~pipe.out.raised /\ pipe.out.total_reviews = Len(pipe.reviews))

\* The number of documents of a corpus that fit can use: a str longer than 20
\* characters that keeps at least one token.
UsableCount(documents) ==
    Cardinality({k \in 1 .. Len(documents) :
                    /\ documents[k] # None /\ IsStr(documents[k])
                    /\ TextLen(documents[k]) > 20
                    /\ tokenize(clean(documents[k]), TRUE, TRUE) # <<>>})

\* C10: TopicModeler.fit called with fewer than 2 x n_topics usable documents
\* returns False and raises nothing, for every corpus (the empty one and those
\* of unusable documents included); it gives up before it builds anything, so
\* the topic modeler is as it was before the call.
C10_FitRejectsSmallCorpus ==
    (pipe.op = "fit" /\ UsableCount(pipe.reviews) < 2 * n_topics)
        => /\ pipe.out.ok = FALSE
           /\ ~pipe.out.raised
           /\ topic_modeler = pipe.before

\* A corpus with as many documents as 2 x n_topics, some of them usable, but
\* fewer than 2 x n_topics usable ones, has been rejected.
C10_Witness ==
    /\ pipe.op = "fit"
    /\ Len(pipe.reviews) >= 2 * n_topics
    /\ UsableCount(pipe.reviews) > 0
    /\ UsableCount(pipe.reviews) < 2 * n_topics
    /\ pipe.out.ok = FALSE

\* A process_dataframe call that reached its topic-model fit: nothing before
\* the fit raised.
FrameReturned == pipe.op = "process_dataframe" /\ ~pipe.out.raised

HasTopicColumns(df) == \E k \in 1 .. Len(df) : df[k].topic.present

\* The sentiment, aspect and quality columns hold, for every row, what the
\* three analyzers return for the row's text.
AnalysisColumns(df, texts) ==
    /\ Len(df) = Len(texts)
    /\ \A k \in 1 .. Len(df) :
          /\ df[k].sentiment_label \in SentimentLabel
          /\ df[k].aspects = aspect_analyze(texts[k]).aspects
          /\ df[k].quality_score = quality_score(texts[k]).overall

\* What a frame that reached its fit shows of the result fitted of that fit.
FrameOfFit(out, texts, fitted) ==
    /\ out.fit_ok = fitted.ok
    /\ ~fitted.raised
    /\ HasTopicColumns(out.df) => fitted.ok
    /\ ~fitted.ok =>
          /\ AnalysisColumns(out.df, texts)
          /\ \A k \in 1 .. Len(out.df) : out.df[k].topic = NoTopic

\* C11: process_dataframe writes the topic_id / topic_confidence columns only
\* if the fit of that same call returned True; when that fit returns False the
\* call raises nothing and returns the frame with the sentiment, aspect and
\* quality columns of every row and without the topic columns.
C11_TopicColumnsOnlyOfOwnFit ==
    FrameReturned =>
        FrameOfFit(pipe.out, fillna_all(pipe.reviews),
                   fit(fillna_all(pipe.reviews), n_topics, pipe.before))

\* A frame whose fit failed on a pipeline that still holds, from an earlier
\* successful fit, one row of doc_topics per row of the frame.
C11_Witness ==
    /\ FrameReturned
    /\ ~pipe.out.fit_ok
    /\ pipe.before.has_doc_topics
    /\ Len(pipe.before.doc_topics) = Len(pipe.reviews)
    /\ UsableCount(fillna_all(pipe.reviews)) >= 2 * n_topics

\* get_summary has been called on the frame of a process_dataframe call whose
\* fit, the pipeline's most recent one, returned False.
SummaryAfterFailedFit == pipe.op = "get_summary" /\ ~pipe.frame.fit_ok

\* C12: whenever the most recent fit of a pipeline returned False, whatever
\* the process_dataframe calls before it (an earlier successful fit
\* included), get_summary on the last frame has no 'topics' entry and
\* get_document_topics exposes no assignments of an earlier corpus.
C12_NoTopicsAfterFailedFit ==
    SummaryAfterFailedFit =>
        /\ ~pipe.out.has_topics
        /\ get_document_topics(topic_modeler).is_none

\* AspectBasedAnalyzer.analyze has returned the aspects of a str.
AspectsReturned ==
    pipe.op = "aspect_analyze" /\ IsStr(pipe.reviews[1]) /\ ~pipe.out.raised

\* The sentences of the review that was analysed.
ReviewSentences == extract_sentences(pipe.reviews[1])

\* The sentence holds, as a substring of its lower-cased text, a keyword of
\* the aspect with key `key`.
HoldsKeywordOf(key, sentence) ==
    \E a \in 1 .. Len(ASPECTS) :
        /\ ASPECTS[a].key = key
        /\ \E kw \in ASPECTS[a].keywords : keyword_in(kw, sentence.words)

\* C13: the list AspectBasedAnalyzer.analyze returns holds an aspect if and
\* only if a sentence of the review holds one of the aspect's keywords
\* (case-insensitive substring match), with at most one entry per aspect; a
\* sentence without any taxonomy keyword contributes to no aspect: every
\* sentence recorded under an aspect holds a keyword of it, and the mentions
\* of an aspect are the sentences that hold one of its keywords.
C13_AspectIffKeyword ==
    AspectsReturned =>
        LET aspects == pipe.out.aspects
        IN  /\ \A a \in 1 .. Len(ASPECTS) :
                  (\E i \in 1 .. Len(aspects) : aspects[i].aspect = ASPECTS[a].key)
                      <=> (\E s \in 1 .. Len(ReviewSentences) :
                              HoldsKeywordOf(ASPECTS[a].key, ReviewSentences[s]))
            /\ \A i, j \in 1 .. Len(aspects) :
                  aspects[i].aspect = aspects[j].aspect => i = j
            /\ \A i \in 1 .. Len(aspects) :
                  /\ \A e \in 1 .. Len(aspects[i].evidence) :
                        HoldsKeywordOf(aspects[i].aspect, aspects[i].evidence[e])
                  /\ aspects[i].mentions
                        = Cardinality({s \in 1 .. Len(ReviewSentences) :
                              HoldsKeywordOf(aspects[i].aspect, ReviewSentences[s])})

\* A review of three sentences: one without a keyword, one that holds "end"
\* inside "friend" only, and one with keywords of two aspects; the list has
\* the three aspects.
C13_Witness ==
    /\ AspectsReturned
    /\ Len(ReviewSentences) = 3
    /\ \E s \in 1 .. 3 :
          \A a \in 1 .. Len(ASPECTS) : ~HoldsKeywordOf(ASPECTS[a].key, ReviewSentences[s])
    /\ \E s \in 1 .. 3 : ReviewSentences[s].words = <<"a", "friend", ".">>
    /\ Len(pipe.out.aspects) = 3

\* The lexicon labels of the sentences of the review that hold a keyword of
\* the aspect, in review order.
MatchedLabels(key) ==
    LET places == SelectSeq([s \in 1 .. Len(ReviewSentences) |-> s],
                            LAMBDA s : HoldsKeywordOf(key, ReviewSentences[s]))
    IN  [i \in 1 .. Len(places) |->
            analyze(ReviewSentences[places[i]], "lexicon", HandleNone, FALSE,
                    NoEnv).result.label]

Occurrences(labels, label) == Cardinality({k \in 1 .. Len(labels) : labels[k] = label})

FirstOccurrence(labels, label) ==
    CHOOSE k \in 1 .. Len(labels) : labels[k] = label /\ \A j \in 1 .. (k - 1) : labels[j] # label

\* C20: the sentiment of each aspect AspectBasedAnalyzer.analyze returns is
\* the label that occurs most often among the sentence-level lexicon
\* sentiments of the sentences matched to the aspect; of two labels with the
\* same highest count, the one that occurred first in review order.
C20_MajorityFirstOnTie ==
    AspectsReturned =>
        \A i \in 1 .. Len(pipe.out.aspects) :
            LET labels == MatchedLabels(pipe.out.aspects[i].aspect)
                winner == pipe.out.aspects[i].sentiment
            IN  /\ Occurrences(labels, winner) > 0
                /\ \A k \in 1 .. Len(labels) :
                      \/ Occurrences(labels, winner) > Occurrences(labels, labels[k])
                      \/ /\ Occurrences(labels, winner) = Occurrences(labels, labels[k])
                         /\ FirstOccurrence(labels, winner)
                                <= FirstOccurrence(labels, labels[k])

\* An aspect of two matched sentences with one positive and one negative
\* label, the positive one first: the aspect is positive.
C20_Witness ==
    /\ AspectsReturned
    /\ \E i \in 1 .. Len(pipe.out.aspects) :
          /\ MatchedLabels(pipe.out.aspects[i].aspect) = <<POSITIVE, NEGATIVE>>
          /\ pipe.out.aspects[i].sentiment = POSITIVE

\* get_summary has returned the summary of the frame of the two example
\* reviews.
ExampleSummarized ==
    pipe.op = "get_summary" /\ pipe.reviews = ExampleReviews /\ ~pipe.out.raised

\* The entry of aspect `key` in a review's aspect list, if there is one.
EntriesOf(aspects, key) == {i \in 1 .. Len(aspects) : aspects[i].aspect = key}

\* C14: for the two example reviews, with detectors that find the first
\* negative and the second positive, the sentiment distribution of the
\* summary is {negative: 1, positive: 1}; the aggregated aspect 'acting' is
\* mentioned in both reviews, once negative and once positive, with
\* sentiment_score 0.0; aspect 'ending' appears only in review 2, as
\* positive, with mentions = 1.
C14_ExampleCorpus ==
    ExampleSummarized =>
        LET summary == pipe.out
            rows == pipe.frame.df
        IN  /\ summary.total_reviews = 2
            /\ DOMAIN summary.sentiment_distribution = {NEGATIVE, POSITIVE}
            /\ summary.sentiment_distribution[NEGATIVE] = 1
            /\ summary.sentiment_distribution[POSITIVE] = 1
            /\ rows[1].sentiment_label = NEGATIVE
            /\ rows[2].sentiment_label = POSITIVE
            /\ "acting" \in DOMAIN summary.aspect_summary
            /\ summary.aspect_summary["acting"].total_mentions = 2
            /\ summary.aspect_summary["acting"].positive = 1
            /\ summary.aspect_summary["acting"].negative = 1
            /\ summary.aspect_summary["acting"].sentiment_score = Ratio(0, 2)
            /\ EntriesOf(rows[1].aspects, "acting") # {}
            /\ EntriesOf(rows[2].aspects, "acting") # {}
            /\ EntriesOf(rows[1].aspects, "ending") = {}
            /\ \E i \in EntriesOf(rows[2].aspects, "ending") :
                  /\ rows[2].aspects[i].sentiment = POSITIVE
                  /\ rows[2].aspects[i].mentions = 1
            /\ "ending" \in DOMAIN summary.aspect_summary
            /\ summary.aspect_summary["ending"].total_mentions = 1
            /\ summary.aspect_summary["ending"].sentiment_score = Ratio(1, 1)

\* The summary of the example corpus on a pipeline whose classifier is
\* loaded: it has the two aspects and no other.
C14_Witness ==
    /\ ExampleSummarized
    /\ _transformer = HandleLoaded
    /\ DOMAIN pipe.out.aspect_summary = {"acting", "ending"}

\* ReviewQualityScorer.score has been called with a str.
Scored == pipe.op = "score" /\ IsStr(pipe.reviews[1])

\* C15: ReviewQualityScorer.score returns overall 0.0 with an empty details
\* map, and raises nothing, for the empty text and for every text shorter
\* than 20 characters.
C15_ShortTextScoresZero ==
    (Scored /\ TextLen(pipe.reviews[1]) < 20)
        => /\ ~pipe.out.raised
           /\ pipe.out.overall = 0
           /\ pipe.out.details = <<>>

\* A text of 19 characters in two sentences, with content words, has been
\* given overall 0.0; the same text after one blank is 20 characters long.
C15_Witness ==
    /\ Scored
    /\ TextLen(pipe.reviews[1]) = 19
    /\ Len(extract_sentences(pipe.reviews[1])) = 2
    /\ pipe.out.overall = 0
    /\ pipe.out.details = <<>>
    /\ quality_score(Str(1, pipe.reviews[1].words)).overall > 0

\* C16: while reviews are analysed no shared state is written: after any
\* sequence of analysis calls every field of the shared analyzer (the
\* lexicons and the taxonomy are definitions here and cannot be written; the
\* classifier handle and the use_transformer flag are its variables) has the
\* value it had when construction finished.
C16_AnalysisWritesNothing ==
    [][_transformer' = _transformer /\ use_transformer' = use_transformer]_vars

\* The aspect table the constructed analyzer was given is malformed: it is
\* empty, or an aspect of it has no keyword.
MalformedTaxonomy(taxonomy) ==
    \/ taxonomy = <<>>
    \/ \E a \in 1 .. Len(taxonomy) : taxonomy[a].keywords = {}

\* C17: constructing the aspect analyzer with a malformed taxonomy, e.g. an
\* empty aspect table, fails at construction time; no analyzer with such a
\* table exists that answers analyze with empty aspect results.
C17_MalformedTaxonomyFailsFast ==
    (pipe.op = "construct" /\ MalformedTaxonomy(pipe.analyzer.ASPECTS))
        => /\ pipe.analyzer.raised
           /\ pipe.reviews = <<>>

\* The accumulator of a label in the call that has returned: the sum of
\* weight x confidence over the participating detectors with that label.
Accumulator(label) ==
    SumSeq([i \in 1 .. Len(call.out.results) |->
               IF call.out.results[i].label = label
               THEN call.out.result.details.weights[i] * call.out.results[i].confidence
               ELSE 0])

\* The place of the first participating detector with the label, in the
\* order classifier, rule-based, lexicon.
FirstDetector(label) ==
    CHOOSE i \in 1 .. Len(call.out.results) :
        /\ call.out.results[i].label = label
        /\ \A j \in 1 .. (i - 1) : call.out.results[j].label # label

\* C18: in the ensemble each participating detector adds weight x confidence
\* to the accumulator of its own label; the returned label is one that a
\* participating detector produced and has the largest accumulator, and of
\* the labels with the largest accumulator it is the one whose detector was
\* added first; the returned confidence is the winning accumulator divided
\* by the sum of the weights used.
C18_WeightedVote ==
    Fused =>
        LET winner == call.out.result.label
            produced == {call.out.results[i].label : i \in 1 .. Len(call.out.results)}
        IN  /\ winner \in produced
            /\ \A l \in produced :
                  \/ Accumulator(winner) > Accumulator(l)
                  \/ /\ Accumulator(winner) = Accumulator(l)
                     /\ FirstDetector(winner) <= FirstDetector(l)
            /\ call.out.result.confidence * SumSeq(call.out.result.details.weights)
                  = Accumulator(winner)

\* Two detectors with different labels and equal accumulators above zero:
\* the label of the one added first was returned.
C18_Witness ==
    /\ Fused
    /\ \E i, j \in 1 .. Len(call.out.results) :
          /\ i < j
          /\ call.out.results[i].label # call.out.results[j].label
          /\ Accumulator(call.out.results[i].label) = Accumulator(call.out.results[j].label)
          /\ Accumulator(call.out.results[i].label) > 0
          /\ call.out.result.label = call.out.results[i].label

\* C19: the label and the confidence of the lexicon scorer are functions of
\* the normalized score (the score of the result) only: positive exactly
\* when normalized > 0.55, negative exactly when normalized < 0.45, neutral
\* otherwise, so also at 0.55 and at 0.45; confidence = 2 x |normalized - 0.5|;
\* when no token is a lexicon word the result is neutral with score 0.5 and
\* confidence 0.
C19_LabelFromNormalized ==
    ScoredDirectly =>
        LET r == call.out.result
        IN  IF LexiconPlaces(ScoredTokens) = {}
            THEN r.label = NEUTRAL /\ r.score * 2 = Unit /\ r.confidence = 0
            ELSE /\ (r.label = POSITIVE) <=> (r.score * 100 > 55 * Unit)
                 /\ (r.label = NEGATIVE) <=> (r.score * 100 < 45 * Unit)
                 /\ (r.label = NEUTRAL)
                        <=> (45 * Unit <= r.score * 100 /\ r.score * 100 <= 55 * Unit)
                 /\ r.confidence = Abs(2 * r.score - Unit)

\* Two lexicon words whose weights average 0.2 were scored: normalized is
\* exactly 0.55, the label neutral and the confidence 0.1.
C19_Witness ==
    /\ ScoredDirectly
    /\ Cardinality(LexiconPlaces(ScoredTokens)) = 2
    /\ call.out.result.score * 100 = 55 * Unit
    /\ call.out.result.label = NEUTRAL
    /\ call.out.result.confidence * 10 = Unit


\* The places in the review of the sentences that hold a keyword of the
\* aspect, in review order.
MatchedPlaces(key) ==
    SelectSeq([s \in 1 .. Len(ReviewSentences) |-> s],
              LAMBDA s : HoldsKeywordOf(key, ReviewSentences[s]))

\* The entry of one aspect counts the sentences at `places` and shows the
\* first three of them as they stand in the review.
MentionsAndEvidence(entry, places) ==
    /\ entry.mentions = Len(places)
    /\ entry.mentions >= 1
    /\ Len(entry.evidence) = Min(3, entry.mentions)
    /\ \A e \in 1 .. Len(entry.evidence) :
          entry.evidence[e] = ReviewSentences[places[e]]

\* C21: for each aspect AspectBasedAnalyzer.analyze returns, mentions is the
\* number of sentences of the review that matched the aspect (at least 1) and
\* evidence is the first min(3, mentions) of them, verbatim and in review
\* order; a sentence that holds keywords of several aspects is counted under
\* each of them and recorded under each of them whenever it is among the
\* aspect's first three.
C21_MentionsAndEvidence ==
    AspectsReturned =>
        /\ \A i \in 1 .. Len(pipe.out.aspects) :
              MentionsAndEvidence(pipe.out.aspects[i],
                                  MatchedPlaces(pipe.out.aspects[i].aspect))
        /\ \A s \in 1 .. Len(ReviewSentences) :
              \A a \in 1 .. Len(ASPECTS) :
                 HoldsKeywordOf(ASPECTS[a].key, ReviewSentences[s]) =>
                    \E i \in 1 .. Len(pipe.out.aspects) :
                       /\ pipe.out.aspects[i].aspect = ASPECTS[a].key
                       /\ \A e \in 1 .. 3 :
                             (e <= Len(MatchedPlaces(ASPECTS[a].key))
                                 /\ MatchedPlaces(ASPECTS[a].key)[e] = s)
                             => pipe.out.aspects[i].evidence[e] = ReviewSentences[s]

\* A review of four sentences that each speak of the plot and the pacing:
\* both aspects have 4 mentions and the same 3 sentences of evidence.
C21_Witness ==
    /\ AspectsReturned
    /\ Len(ReviewSentences) = 4
    /\ \E i, j \in 1 .. Len(pipe.out.aspects) :
          /\ i # j
          /\ pipe.out.aspects[i].mentions = 4
          /\ pipe.out.aspects[j].mentions = 4
          /\ Len(pipe.out.aspects[i].evidence) = 3
          /\ pipe.out.aspects[i].evidence = pipe.out.aspects[j].evidence


\* aggregate has returned the statistics of the reviews' aspect lists.
Aggregated == pipe.op = "aggregate"

\* The aspect lists that were aggregated, one per review.
AggregatedLists ==
    [k \in 1 .. Len(pipe.reviews) |-> aspect_analyze(pipe.reviews[k]).aspects]

\* The entries (review, place in its list) of the aspect with the label.
TallyOf(lists, key, label) ==
    Cardinality({e \in (1 .. Len(lists)) \X (1 .. Len(ASPECTS)) :
                    /\ e[2] <= Len(lists[e[1]])
                    /\ lists[e[1]][e[2]].aspect = key
                    /\ lists[e[1]][e[2]].sentiment = label})

\* Fractions: equality, and the numerator of x - y and of x + y + z over the
\* product of the denominators.
SameFraction(x, y) == x.num * y.den = y.num * x.den
Difference(x, y) == [num |-> x.num * y.den - y.num * x.den, den |-> x.den * y.den]
Sum3(x, y, z) ==
    [num |-> x.num * y.den * z.den + y.num * x.den * z.den + z.num * x.den * y.den,
     den |-> x.den * y.den * z.den]

\* C22: aggregate returns an entry for exactly the aspects that appear in at
\* least one of the lists, and for each of them total_mentions is the sum of
\* its positive, negative and neutral tallies (at least 1), sentiment_score is
\* (positive - negative) / total, lies in [-1, 1] and equals positive_ratio -
\* negative_ratio, and the three ratios add up to 1.
C22_AggregateRatios ==
    Aggregated =>
        LET lists == AggregatedLists
            result == pipe.out.result
        IN  /\ DOMAIN result
                  = UNION {{lists[k][i].aspect : i \in 1 .. Len(lists[k])} :
                             k \in 1 .. Len(lists)}
            /\ \A key \in DOMAIN result :
                  LET pos == TallyOf(lists, key, POSITIVE)
                      neg == TallyOf(lists, key, NEGATIVE)
                      neu == TallyOf(lists, key, NEUTRAL)
                      st == result[key]
                  IN  /\ st.total_mentions = pos + neg + neu
                      /\ st.total_mentions >= 1
                      /\ st.sentiment_score.den > 0
                      /\ SameFraction(st.sentiment_score,
                                      Ratio(pos - neg, st.total_mentions))
                      /\ Abs(st.sentiment_score.num) <= st.sentiment_score.den
                      /\ SameFraction(st.sentiment_score,
                                      Difference(st.positive_ratio, st.negative_ratio))
                      /\ SameFraction(Sum3(st.positive_ratio, st.negative_ratio,
                                           st.neutral_ratio), Ratio(1, 1))

\* Four reviews have been aggregated, one of them with two mentions of the
\* acting: 'acting' is in three of them, once with each label (score 0), and
\* 'plot' in the fourth, negative (score -1).
C22_Witness ==
    /\ Aggregated
    /\ Len(pipe.reviews) = 4
    /\ \E k \in 1 .. 4 : \E i \in 1 .. Len(AggregatedLists[k]) :
          AggregatedLists[k][i].mentions = 2
    /\ DOMAIN pipe.out.result = {"acting", "plot", "pacing"}
    /\ pipe.out.result["acting"].total_mentions = 3
    /\ pipe.out.result["acting"].positive_ratio = Ratio(1, 3)
    /\ pipe.out.result["acting"].negative_ratio = Ratio(1, 3)
    /\ pipe.out.result["acting"].neutral_ratio = Ratio(1, 3)
    /\ pipe.out.result["acting"].sentiment_score = Ratio(0, 3)
    /\ pipe.out.result["plot"].sentiment_score = Ratio(-1, 1)


\* fit has been called directly with a corpus.
FitCalled == pipe.op = "fit"

\* A document that is a text of at least 20 characters and leaves at least
\* one token after cleaning and tokenization.
TextOfAtLeast20(doc) ==
    /\ IsStr(doc)
    /\ TextLen(doc) >= 20
    /\ tokenize(clean(doc), TRUE, TRUE) # <<>>

AtLeast20Count(documents) ==
    Cardinality({k \in 1 .. Len(documents) : TextOfAtLeast20(documents[k])})

\* C23: fit counts a document as usable exactly when it is a text of at
\* least 20 characters whose cleaning and tokenization leaves at least one
\* token, and evaluates the 2 x n_topics precondition on that count: the
\* documents it keeps are those, and a corpus with 2 x n_topics or more of
\* them is not rejected for its size (a new modeler gets its vectorizer).
C23_UsableFromTwentyCharacters ==
    FitCalled =>
        /\ pipe.out.kept = AtLeast20Count(pipe.reviews)
        /\ (AtLeast20Count(pipe.reviews) >= 2 * n_topics
                /\ pipe.before = NewTopicModeler)
              => pipe.out.tm.vectorizer # "None"
        /\ AtLeast20Count(pipe.reviews) < 2 * n_topics
              => ~pipe.out.ok /\ pipe.out.tm = pipe.before


\* _generate_label has returned the label of pipe.keywords.
Labelled == pipe.op = "_generate_label"

\* The topic's top-5 keywords, lower-cased, and the size of their
\* intersection with the keyword tuple of rule r.
TopFive == {lower(pipe.keywords[k]) : k \in 1 .. Min(5, Len(pipe.keywords))}
RuleScore(r) == Cardinality(TopFive \cap topic_label_rules[r].keywords)

\* The top-3 keywords joined by ', '.
TopThreeJoined ==
    CASE Len(pipe.keywords) = 0 -> ""
      [] Len(pipe.keywords) = 1 -> pipe.keywords[1]
      [] Len(pipe.keywords) = 2 -> pipe.keywords[1] \o ", " \o pipe.keywords[2]
      [] OTHER -> pipe.keywords[1] \o ", " \o pipe.keywords[2] \o ", "
                      \o pipe.keywords[3]

\* C24: _generate_label returns the label of the rule whose keyword tuple
\* has the largest intersection with the topic's top-5 keywords, of the
\* rules with an equal largest intersection the earliest in the rule table;
\* if no rule intersects, the topic's top-3 keywords joined by ', '.
C24_LabelOfBestRule ==
    Labelled =>
        IF \E r \in 1 .. Len(topic_label_rules) : RuleScore(r) > 0
        THEN \E r \in 1 .. Len(topic_label_rules) :
                /\ pipe.out.label = topic_label_rules[r].label
                /\ \A q \in 1 .. Len(topic_label_rules) :
                      /\ RuleScore(q) <= RuleScore(r)
                      /\ RuleScore(q) = RuleScore(r) => r <= q
        ELSE pipe.out.label = TopThreeJoined

\* Six keywords: the top five hold one of the second rule and, after it,
\* one of the first, and the sixth is another of the second rule; the label
\* is the one of the first rule.
C24_Witness ==
    /\ Labelled
    /\ Len(pipe.keywords) = 6
    /\ pipe.keywords[1] = "acting"
    /\ pipe.keywords[6] = "Actor"
    /\ RuleScore(1) = 1
    /\ RuleScore(2) = 1
    /\ pipe.out.label = "plot twist"

\* No rule intersects four keywords: the label is the first three.
C24_WitnessFallback ==
    /\ Labelled
    /\ Len(pipe.keywords) = 4
    /\ pipe.out.label = "movie, film, good"


\* get_topics has been called.
TopicsAsked == pipe.op = "get_topics"

\* The topics get_topics returned are those of the fitted components: one
\* per component with the ids 0 .. n - 1, each with the number of documents
\* whose affinity to it exceeds 0.1, its keywords by falling weight, and the
\* topics by falling number of documents.
RankedTopics(topics, tm, factorization) ==
    /\ Len(topics) = tm.n_components
    /\ {topics[k].topic_id : k \in 1 .. Len(topics)} = 0 .. (tm.n_components - 1)
    /\ \A k \in 1 .. Len(topics) :
          /\ topics[k].num_docs
                = Cardinality({d \in 1 .. Len(factorization.doc_topics) :
                      factorization.doc_topics[d][topics[k].topic_id + 1] > 10})
          /\ Len(topics[k].keywords) = Len(topics[k].keyword_weights)
          /\ \A i \in 1 .. (Len(topics[k].keyword_weights) - 1) :
                topics[k].keyword_weights[i] >= topics[k].keyword_weights[i + 1]
          /\ \A i \in 1 .. Len(topics[k].keywords) :
                \E f \in 1 .. Len(tm.feature_names) :
                   /\ tm.feature_names[f] = topics[k].keywords[i]
                   /\ factorization.components_[topics[k].topic_id + 1][f]
                         = topics[k].keyword_weights[i]
    /\ \A k \in 1 .. (Len(topics) - 1) : topics[k].num_docs >= topics[k + 1].num_docs

\* get_topics on a modeler whose model is fitted returns the ranked topics.
TopicsOfFittedModel ==
    (TopicsAsked /\ pipe.before.model = "fitted")
        => /\ ~pipe.out.raised
           /\ RankedTopics(pipe.out.topics, pipe.before, pipe.factorization)

\* Two topics with different numbers of documents, the second component
\* first, and keywords with equal weights among them.
TopicsOfFittedModel_Witness ==
    /\ TopicsAsked
    /\ Len(pipe.out.topics) = 2
    /\ pipe.out.topics[1].topic_id = 1
    /\ pipe.out.topics[1].num_docs > pipe.out.topics[2].num_docs
    /\ pipe.out.topics[2].num_docs > 0
    /\ pipe.n_words = 2
    /\ pipe.out.topics[1].keyword_weights = <<2, 2>>

\* C25: get_topics returns one TopicInfo per fitted component, with distinct
\* 0-based topic ids, ordered by num_docs non-increasing (num_docs being the
\* number of documents whose affinity to the component exceeds 0.1), each
\* with its keywords in non-increasing weight order; before any successful
\* fit (the modeler has no doc_topics yet) it returns the empty list.
C25_TopicsRanked ==
    TopicsAsked =>
        /\ ~pipe.out.raised
        /\ ~pipe.before.has_doc_topics => pipe.out.topics = <<>>
        /\ pipe.before.model = "fitted"
              => RankedTopics(pipe.out.topics, pipe.before, pipe.factorization)


\* score has returned the sub-scores of a text of at least 20 characters.
ScoredInFull == Scored /\ TextLen(pipe.reviews[1]) >= 20 /\ ~pipe.out.raised

\* The sub-score, a fraction of the unit D, lies in [0, 1].
SubScoreInRange(details, name) == 0 <= details[name] /\ details[name] <= details.unit

\* 10 x D times the weighted sum 0.2 x length + 0.3 x diversity + 0.2 x
\* structure + 0.3 x substance of the sub-scores returned; overall, in
\* thousandths, is compared with it in units of 1 / (D / 100).
WeightedSum(details) ==
    2 * details.length + 3 * details.diversity + 2 * details.structure
        + 3 * details.substance

\* C26: for every text of at least 20 characters score gives each of the
\* four sub-scores a value in [0, 1] and overall is 0.2 x length + 0.3 x
\* diversity + 0.2 x structure + 0.3 x substance rounded to 3 decimals (it is
\* a multiple of 0.001 no further than 0.0005 from the sum); the quality
\* score stored in a ReviewAnalysis is in [0, 1].
C26_QualityInRange ==
    /\ ScoredInFull =>
          /\ pipe.out.details # <<>>
          /\ \A name \in {"length", "diversity", "structure", "substance"} :
                SubScoreInRange(pipe.out.details, name)
          /\ pipe.out.details.unit % 100 = 0
          /\ 2 * Abs(pipe.out.overall * (pipe.out.details.unit \div 100)
                        - WeightedSum(pipe.out.details))
                <= pipe.out.details.unit \div 100
          /\ 0 <= pipe.out.overall /\ pipe.out.overall <= 1000
    /\ (pipe.op = "analyze_review" /\ ~pipe.out.raised) =>
          /\ 0 <= pipe.out.review.quality_score
          /\ pipe.out.review.quality_score <= 1000

\* A text of more than 800 characters whose one sentence is shorter than 8
\* words: length and structure are below 1 and above 0, and the overall
\* score is not the plain mean of the four.
C26_Witness ==
    /\ ScoredInFull
    /\ TextLen(pipe.reviews[1]) > 800
    /\ pipe.out.details.length < pipe.out.details.unit
    /\ pipe.out.details.length > pipe.out.details.unit \div 2
    /\ pipe.out.details.structure > 0
    /\ pipe.out.details.structure < pipe.out.details.unit
    /\ pipe.out.details.diversity = pipe.out.details.unit
    /\ pipe.out.overall
          # overall_unweighted(pipe.out.details.length, pipe.out.details.diversity,
                               pipe.out.details.structure,
                               pipe.out.details.substance, pipe.out.details.unit)


\* The call needs the classifier: a str that is not short, analysed with the
\* transformer or the ensemble method.
AsksClassifier ==
    /\ Analyzed
    /\ IsStr(call.text) /\ ~is_short(call.text)
    /\ call.method \in {"transformer", "ensemble"}

\* C27: for one analyzer the classifier load is attempted at most once over
\* any sequence of analysis calls.  A handle that is no longer None is never
\* written again (a load is attempted only while it is None, and the first
\* call that needs the classifier of an analyzer with use_transformer leaves
\* it loaded or False); with use_transformer False it stays None and the
\* classifier is never run; after a failed load it stays False and the
\* classifier step gives None without running anything; after a successful
\* load the loaded model stays and is the one that is run.
C27_LoadAtMostOnce ==
    Analyzed =>
        /\ call.before # HandleNone => _transformer = call.before
        /\ (call.before = HandleNone /\ use_transformer /\ AsksClassifier)
              => _transformer \in {HandleLoaded, HandleFalse}
        /\ ~use_transformer
              => _transformer = HandleNone /\ "transformer" \notin call.out.invoked
        /\ call.before = HandleFalse
              => /\ "transformer" \notin call.out.invoked
                 /\ call.method = "ensemble" /\ ~call.out.raised
                       => \A i \in 1 .. Len(call.out.results) :
                             call.out.results[i].method # "transformer"
        /\ "transformer" \in call.out.invoked => _transformer = HandleLoaded

\* An ensemble call on an analyzer whose load has failed before: the handle
\* is still False and VADER and the lexicon alone are run.
C27_Witness ==
    /\ AsksClassifier
    /\ call.method = "ensemble"
    /\ use_transformer
    /\ call.before = HandleFalse
    /\ _transformer = HandleFalse
    /\ call.out.invoked = {"vader", "lexicon"}


\* The fit of the frame that process_dataframe has returned, computed again
\* from the texts of the frame and the modeler before the call.
FitOfFrame == fit(fillna_all(pipe.reviews), n_topics, pipe.before)

\* C28: whenever process_dataframe writes the topic columns, the fit kept as
\* many documents as the frame has rows: every row has the columns and row k
\* of the document-topic matrix, the one whose arg-max and max row k of the
\* frame is given, is the row of review k; and when the fit succeeds but a
\* review of the frame was discarded as unusable, no row has a topic column.
C28_TopicRowsAligned ==
    FrameReturned =>
        /\ HasTopicColumns(pipe.out.df) =>
              /\ pipe.out.fit_ok
              /\ UsableCount(fillna_all(pipe.reviews)) = Len(pipe.reviews)
              /\ Len(pipe.out.tm.doc_topics) = Len(pipe.reviews)
              /\ \A k \in 1 .. Len(pipe.out.df) :
                    /\ pipe.out.df[k].topic.present
                    /\ pipe.out.df[k].topic.doc = k
                    /\ pipe.out.tm.doc_topics[k] = k
        /\ (pipe.out.fit_ok
              /\ UsableCount(fillna_all(pipe.reviews)) < Len(pipe.reviews))
              => \A k \in 1 .. Len(pipe.out.df) : pipe.out.df[k].topic = NoTopic

\* A frame of usable reviews whose fit succeeded: every row has its topic.
C28_Witness ==
    /\ FrameReturned
    /\ pipe.out.fit_ok
    /\ Len(pipe.reviews) = MaxReviews
    /\ \A k \in 1 .. Len(pipe.out.df) : pipe.out.df[k].topic.present

\* A frame with a missing text in its first row whose fit succeeded on the
\* other rows: the matrix has one row fewer than the frame, and no topic
\* column is written.
C28_WitnessDiscarded ==
    /\ FrameReturned
    /\ pipe.out.fit_ok
    /\ pipe.reviews[1] = None
    /\ FitOfFrame.kept = Len(pipe.reviews) - 1
    /\ ~HasTopicColumns(pipe.out.df)


\* What a matched sentence contributes to its aspects: neutral with
\* confidence 0 when it is shorter than 10 characters, else the label and the
\* confidence the lexicon scorer gives it.
Contribution(sentence) ==
    IF StripLen(sentence) < 10
    THEN [label |-> NEUTRAL, confidence |-> 0]
    ELSE [label |-> _analyze_lexicon(sentence).label,
          confidence |-> _analyze_lexicon(sentence).confidence]

\* The entry of an aspect is the vote and the mean of `contributions`.
EntryOfContributions(entry, contributions) ==
    LET labels == [i \in 1 .. Len(contributions) |-> contributions[i].label]
    IN  /\ Occurrences(labels, entry.sentiment) > 0
        /\ \A k \in 1 .. Len(labels) :
              \/ Occurrences(labels, entry.sentiment) > Occurrences(labels, labels[k])
              \/ /\ Occurrences(labels, entry.sentiment) = Occurrences(labels, labels[k])
                 /\ FirstOccurrence(labels, entry.sentiment)
                        <= FirstOccurrence(labels, labels[k])
        /\ SameFraction(entry.confidence,
                        [num |-> SumSeq([i \in 1 .. Len(contributions) |->
                                            contributions[i].confidence]),
                         den |-> Len(contributions)])

\* C29: in AspectBasedAnalyzer.analyze a matched sentence whose stripped
\* length is under 10 characters contributes a neutral label with confidence
\* 0 to its aspects, whatever lexicon words it holds, and a matched sentence
\* of 10 or more characters contributes its lexicon label and confidence:
\* each aspect's sentiment is the vote and its confidence the mean of these
\* contributions.
C29_ShortSentencesNeutral ==
    AspectsReturned =>
        \A i \in 1 .. Len(pipe.out.aspects) :
            LET places == MatchedPlaces(pipe.out.aspects[i].aspect)
            IN  EntryOfContributions(pipe.out.aspects[i],
                    [e \in 1 .. Len(places) |->
                        Contribution(ReviewSentences[places[e]])])

\* The review "bad plot.": the lexicon scorer finds "bad" and calls the
\* sentence negative, and the plot is neutral with confidence 0.
C29_Witness ==
    /\ AspectsReturned
    /\ Len(ReviewSentences) = 1
    /\ StripLen(ReviewSentences[1]) < 10
    /\ _analyze_lexicon(ReviewSentences[1]).label = NEGATIVE
    /\ _analyze_lexicon(ReviewSentences[1]).confidence > 0
    /\ Len(pipe.out.aspects) = 1
    /\ pipe.out.aspects[1].aspect = "plot"
    /\ pipe.out.aspects[1].sentiment = NEUTRAL
    /\ pipe.out.aspects[1].confidence.num = 0

\* A review of a short and a long sentence about the plot, the short one
\* first: one neutral and one negative vote, and the plot is neutral.
C29_WitnessMixed ==
    /\ AspectsReturned
    /\ Len(ReviewSentences) = 2
    /\ StripLen(ReviewSentences[1]) < 10
    /\ StripLen(ReviewSentences[2]) >= 10
    /\ \E i \in 1 .. Len(pipe.out.aspects) :
          /\ pipe.out.aspects[i].aspect = "plot"
          /\ pipe.out.aspects[i].mentions = 2
          /\ _analyze_lexicon(ReviewSentences[1]).label = NEGATIVE
          /\ _analyze_lexicon(ReviewSentences[2]).label = NEGATIVE
          /\ pipe.out.aspects[i].sentiment = NEUTRAL
          /\ pipe.out.aspects[i].confidence.num > 0


\* The weight of a token in the two lexicons, in tenths; 0 for other tokens.
LexiconWeight(token) ==
    IF token \in DOMAIN positive_words THEN positive_words[token]
    ELSE IF token \in DOMAIN negative_words THEN negative_words[token]
    ELSE 0

\* The factor that the one token `prev` gives the word after it, in tenths:
\* that of the intensifier table, else that of the diminisher table, else 1.0.
FactorOfToken(prev) ==
    IF prev \in DOMAIN intensifiers THEN intensifiers[prev]
    ELSE IF prev \in SingleWordDiminishers THEN diminishers[prev]
    ELSE 10

\* What the token at place i adds to the raw score when its modifier is the
\* factor of the token before it.
ContributionAt(tokens, i) ==
    LET factor == IF i > 1 THEN FactorOfToken(tokens[i - 1]) ELSE 10
        signed == IF negated(tokens, i) THEN -1 ELSE 1
    IN  signed * LexiconWeight(tokens[i]) * factor

\* The keys of the diminisher table that are two words.
TwoWordDiminishers == {"kind of", "sort of", "a bit", "a little"}

\* C30: in the lexicon scorer the modifier of a lexicon word depends only on
\* the one token right before it, looked up in the intensifier table and then
\* in the diminisher table: the raw score of a text with a lexicon word is
\* the sum of the words' weights, each times the factor of the token before
\* it (and negated after a negation word).  No token is ever a two-word
\* diminisher, and a word preceded by 'of', 'bit' or 'little' is scored with
\* modifier 1.0, as it is alone.
C30_ModifierOfOneToken ==
    ScoredDirectly =>
        LET tokens == ScoredTokens
            r == call.out.result
        IN  /\ IF LexiconPlaces(tokens) = {} THEN r.details = EmptyDetails
               ELSE r.details.raw_score =
                       SumSeq([i \in 1 .. Len(tokens) |-> ContributionAt(tokens, i)])
            /\ \A i \in 1 .. Len(tokens) : tokens[i] \notin TwoWordDiminishers
            /\ (HasOneLexiconWord /\ TheLexiconPlace > 1
                  /\ tokens[TheLexiconPlace - 1] \in {"of", "bit", "little"})
                  => /\ r.details.raw_score = 10 * LexiconWeight(tokens[TheLexiconPlace])
                     /\ r.score = _analyze_lexicon(
                                     Str(0, <<tokens[TheLexiconPlace]>>)).score

\* "kind of good" has been scored: the three words are three tokens, and the
\* score is that of "good" alone, above that of "slightly good", whose
\* diminisher has the same factor 0.6.
C30_Witness ==
    /\ ScoredDirectly
    /\ call.text.words = <<"kind", "of", "good">>
    /\ ScoredTokens = <<"kind", "of", "good">>
    /\ diminishers["kind of"] = diminishers["slightly"]
    /\ call.out.result.details.raw_score = 80
    /\ call.out.result.score = _analyze_lexicon(Str(0, <<"good">>)).score
    /\ call.out.result.score > _analyze_lexicon(Str(0, <<"slightly", "good">>)).score

\* "a bit terrible" has been scored: the one-letter "a" is no token, "bit"
\* is the token before the word, and the score is that of "terrible" alone.
C30_WitnessBit ==
    /\ ScoredDirectly
    /\ call.text.words = <<"a", "bit", "terrible">>
    /\ ScoredTokens = <<"bit", "terrible">>
    /\ call.out.result.details.raw_score = -180

=============================================================================
